---------------------------- MODULE Spec2Model ----------------------------
(***************************************************************************)
(* Combat & balance resolution core of the "Legends of Valgallia" RPG bot, *)
(* translated from src/game_logic: character.py (leveling, total stats),   *)
(* items.py (consumables), enemies.py (Enemy), combat.py (damage formula,  *)
(* enemy scaling, the encounter state machine), equipment.py and           *)
(* inventory_manager.py (upgrade resolution).                              *)
(***************************************************************************)
EXTENDS Integers, Sequences, FiniteSets, TLC

VARIABLES
    character,          \* the Character record (database_models.Character)
    enemy,              \* the Enemy instance of the encounter (enemies.Enemy)
    turn_number,        \* CombatState.turn_number
    character_effects,  \* CombatState.character_effects: effect id -> effect
    enemy_effects,      \* CombatState.enemy_effects
    combat_log,         \* CombatState.combat_log: its last LogTail records
    log_len,            \* len(CombatState.combat_log)
    equipment,          \* CharacterEquipment row: equipped ids, tiers, materials
    result,             \* what the last operation returned to its caller
    calls,              \* number of operations performed so far in this run
    tasks,              \* coroutines in flight: task id -> position and locals
    active_rests,       \* RestManager.active_rests: user_id -> rest_data object
    rest_data           \* the rest_data dictionaries created so far

vars == <<character, enemy, turn_number, character_effects, enemy_effects,
          combat_log, log_len, equipment, result, calls, tasks, active_rests,
          rest_data>>

\* No coroutine is suspended and the RestManager is as constructed.
NoTasks == <<>>
NoRests == <<>>

Max(a, b) == IF a >= b THEN a ELSE b
Min(a, b) == IF a <= b THEN a ELSE b

(***************************************************************************)
(* Python integers are unbounded; the experience thresholds of the high    *)
(* levels (100 * 1.5^49 is about 4.2e10) and the remainders of the upgrade *)
(* cost exceed 32 bits.  Such quantities are kept as two limbs <<hi, lo>>  *)
(* standing for hi * LimbBase + lo, with 0 <= lo < LimbBase.               *)
(***************************************************************************)
LimbBase == 1000 * 1000

BigOf(n) == <<n \div LimbBase, n % LimbBase>>

BigZero == <<0, 0>>

BigAdd(a, b) ==
    LET lo == a[2] + b[2]
    IN  <<a[1] + b[1] + (lo \div LimbBase), lo % LimbBase>>

\* a - b for a >= b
BigSub(a, b) ==
    LET lo == a[2] - b[2]
    IN  IF lo >= 0 THEN <<a[1] - b[1], lo>>
                   ELSE <<a[1] - b[1] - 1, lo + LimbBase>>

BigGE(a, b) == a[1] > b[1] \/ (a[1] = b[1] /\ a[2] >= b[2])

BigLT(a, b) == ~BigGE(a, b)

\* a * k for a small natural k
BigMulSmall(a, k) ==
    LET lo == a[2] * k
    IN  <<a[1] * k + (lo \div LimbBase), lo % LimbBase>>

\* floor(a / d) for a small natural d > 0
BigDivSmall(a, d) ==
    <<a[1] \div d, ((a[1] % d) * LimbBase + a[2]) \div d>>

(***************************************************************************)
(* config.py: game configuration (the defaults of the environment reads).  *)
(***************************************************************************)
MAX_LEVEL == 50
BASE_EXP_REQUIRED == 100
\* EXP_MULTIPLIER = 1.5, as the fraction ExpMultNum / ExpMultDen
ExpMultNum == 3
ExpMultDen == 2

Classes == {"warrior", "mage", "ranger"}

\* CHARACTER_CLASSES[c]['base_stats']
BaseStats(c) ==
    CASE c = "warrior" ->
           [health |-> 100, max_health |-> 100, mana |-> 0, max_mana |-> 0,
            attack |-> 12, defense |-> 8, magic_power |-> 0, speed |-> 8,
            critical_chance |-> 10, block_chance |-> 15]
      [] c = "mage" ->
           [health |-> 70, max_health |-> 70, mana |-> 100, max_mana |-> 100,
            attack |-> 6, defense |-> 3, magic_power |-> 15, speed |-> 12,
            critical_chance |-> 10, block_chance |-> 5]
      [] c = "ranger" ->
           [health |-> 85, max_health |-> 85, mana |-> 0, max_mana |-> 0,
            attack |-> 10, defense |-> 5, magic_power |-> 0, speed |-> 15,
            critical_chance |-> 20, block_chance |-> 5]

\* CHARACTER_CLASSES[c]['level_bonus']
LevelBonus(c) ==
    CASE c = "warrior" ->
           [health |-> 15, mana |-> 0, attack |-> 3, defense |-> 2,
            magic_power |-> 0, speed |-> 1, critical_chance |-> 0,
            block_chance |-> 0]
      [] c = "mage" ->
           [health |-> 10, mana |-> 15, attack |-> 1, defense |-> 1,
            magic_power |-> 3, speed |-> 1, critical_chance |-> 0,
            block_chance |-> 0]
      [] c = "ranger" ->
           [health |-> 12, mana |-> 0, attack |-> 2, defense |-> 1,
            magic_power |-> 0, speed |-> 2, critical_chance |-> 1,
            block_chance |-> 0]

\* CHARACTER_CLASSES[c]['start_equipment']
StartEquipment(c) ==
    CASE c = "warrior" -> [weapon |-> "iron_sword", armor |-> "leather_armor"]
      [] c = "mage" -> [weapon |-> "wooden_staff", armor |-> "apprentice_robe"]
      [] c = "ranger" -> [weapon |-> "hunting_bow", armor |-> "leather_armor"]

(***************************************************************************)
(* character.py: creation and leveling.                                    *)
(***************************************************************************)
\* CharacterManager.create_character
create_character(c) ==
    [character_class |-> c,
     level |-> 1,
     experience |-> BigZero,
     experience_needed |-> BigOf(BASE_EXP_REQUIRED),
     health |-> BaseStats(c).health,
     max_health |-> BaseStats(c).max_health,
     mana |-> BaseStats(c).mana,
     max_mana |-> BaseStats(c).max_mana,
     gold |-> 50,
     attack |-> BaseStats(c).attack,
     defense |-> BaseStats(c).defense,
     magic_power |-> BaseStats(c).magic_power,
     speed |-> BaseStats(c).speed,
     critical_chance |-> BaseStats(c).critical_chance,
     block_chance |-> BaseStats(c).block_chance,
     weapon |-> StartEquipment(c).weapon,
     armor |-> StartEquipment(c).armor]

\* int(experience_needed * config.EXP_MULTIPLIER)
NextThreshold(needed) == BigDivSmall(BigMulSmall(needed, ExpMultNum), ExpMultDen)

\* apply_level_bonuses without the full restore of health and mana.
apply_level_bonuses_no_restore(ch) ==
    LET b == LevelBonus(ch.character_class)
        Grow(cur, bonus) == IF bonus > 0 THEN cur + bonus ELSE cur
    IN  [ch EXCEPT
           !.max_health = ch.max_health + b.health,
           !.max_mana = ch.max_mana + b.mana,
           !.attack = Grow(ch.attack, b.attack),
           !.defense = Grow(ch.defense, b.defense),
           !.magic_power = Grow(ch.magic_power, b.magic_power),
           !.speed = Grow(ch.speed, b.speed),
           !.critical_chance = Grow(ch.critical_chance, b.critical_chance),
           !.block_chance = Grow(ch.block_chance, b.block_chance)]

\* CharacterManager.apply_level_bonuses: the health and mana bonus always
\* apply (both keys are in every class's level_bonus) with a full restore;
\* the other stats only grow by a positive bonus.
apply_level_bonuses(ch) ==
    LET b == LevelBonus(ch.character_class)
        Grow(cur, bonus) == IF bonus > 0 THEN cur + bonus ELSE cur
    IN  [ch EXCEPT
           !.max_health = ch.max_health + b.health,
           !.health = ch.max_health + b.health,
           !.max_mana = ch.max_mana + b.mana,
           !.mana = ch.max_mana + b.mana,
           !.attack = Grow(ch.attack, b.attack),
           !.defense = Grow(ch.defense, b.defense),
           !.magic_power = Grow(ch.magic_power, b.magic_power),
           !.speed = Grow(ch.speed, b.speed),
           !.critical_chance = Grow(ch.critical_chance, b.critical_chance),
           !.block_chance = Grow(ch.block_chance, b.block_chance)]

\* The guard of CharacterManager.level_up: enough experience for the level.
CanLevelUp(ch) == BigGE(ch.experience, ch.experience_needed)

\* CharacterManager.level_up (the character after it; unchanged when the
\* experience is below the threshold, where the code returns False)
level_up(ch) ==
    IF ~CanLevelUp(ch) THEN ch
    ELSE apply_level_bonuses(
           [ch EXCEPT
              !.experience = BigSub(ch.experience, ch.experience_needed),
              !.level = ch.level + 1,
              !.experience_needed = NextThreshold(ch.experience_needed)])

\* The condition of the while loop of add_experience.
LevelLoopGuard(ch) ==
    BigGE(ch.experience, ch.experience_needed) /\ ch.level < MAX_LEVEL

\* The loop of add_experience run as a single `if`: at most one level-up.
LevelLoopOnce(ch, gained) ==
    IF LevelLoopGuard(ch) /\ CanLevelUp(ch)
    THEN [ch |-> level_up(ch), levels_gained |-> gained + 1]
    ELSE [ch |-> ch, levels_gained |-> gained]

\* The while loop of CharacterManager.add_experience: the character and the
\* number of levels gained when the loop exits.
RECURSIVE LevelLoop(_, _)
LevelLoop(ch, gained) ==
    IF LevelLoopGuard(ch)
    THEN IF CanLevelUp(ch)
         THEN LevelLoop(level_up(ch), gained + 1)
         ELSE [ch |-> ch, levels_gained |-> gained]
    ELSE [ch |-> ch, levels_gained |-> gained]

\* CharacterManager.add_experience: the character after the call and the
\* dictionary it returns (exp_amount is a two-limb number).
add_experience(ch, exp_amount) ==
    LET r == LevelLoop([ch EXCEPT !.experience = BigAdd(ch.experience, exp_amount)], 0)
    IN  [ch |-> r.ch,
         ret |-> [op |-> "add_experience",
                  exp_gained |-> exp_amount,
                  levels_gained |-> r.levels_gained,
                  old_level |-> ch.level,
                  new_level |-> r.ch.level,
                  level_up |-> r.levels_gained > 0]]

(***************************************************************************)
(* items.py / character.py: the item catalogue and effective stats.        *)
(***************************************************************************)
NoBonus ==
    [attack |-> 0, defense |-> 0, magic_power |-> 0, health |-> 0,
     mana |-> 0, speed |-> 0, critical_chance |-> 0, block_chance |-> 0]

\* Item.stats of the weapons and armor of ItemManager._create_default_items
\* that the modelled characters wear; get_item of any other id is None.
ItemStats(item_id) ==
    CASE item_id = "iron_sword" -> [NoBonus EXCEPT !.attack = 15]
      [] item_id = "wooden_staff" -> [NoBonus EXCEPT !.magic_power = 12, !.mana = 20]
      [] item_id = "hunting_bow" -> [NoBonus EXCEPT !.attack = 10, !.critical_chance = 5]
      [] item_id = "steel_sword" -> [NoBonus EXCEPT !.attack = 25, !.critical_chance = 5]
      [] item_id = "leather_armor" -> [NoBonus EXCEPT !.defense = 6, !.speed = 2]
      [] item_id = "apprentice_robe" ->
           [NoBonus EXCEPT !.defense = 3, !.mana = 30, !.magic_power = 5]
      [] item_id = "padded_armor" -> [NoBonus EXCEPT !.defense = 8, !.health = 20]
      [] OTHER -> NoBonus

\* CharacterManager.get_equipment_bonuses
get_equipment_bonuses(ch) ==
    LET w == ItemStats(ch.weapon)
        a == ItemStats(ch.armor)
    IN  [k \in DOMAIN NoBonus |-> w[k] + a[k]]

\* CharacterManager.get_total_stats
\* (equipment_bonuses is computed once and then read for every stat)
get_total_stats(ch) ==
    CHOOSE total_stats \in
        {[health |-> ch.health,
          max_health |-> ch.max_health + (IF b.health > 0 THEN b.health ELSE 0),
          mana |-> ch.mana,
          max_mana |-> ch.max_mana + (IF b.mana > 0 THEN b.mana ELSE 0),
          attack |-> ch.attack + b.attack,
          defense |-> ch.defense + b.defense,
          magic_power |-> ch.magic_power + b.magic_power,
          speed |-> ch.speed + b.speed,
          critical_chance |-> ch.critical_chance + b.critical_chance,
          block_chance |-> ch.block_chance + b.block_chance] :
         b \in {get_equipment_bonuses(ch)}} : TRUE

(***************************************************************************)
(* combat.py, BalancedCombatSystem: power estimate and enemy scaling.      *)
(* Float factors are kept as exact fractions; for the characters, levels   *)
(* and locations explored here the floating-point products of the code     *)
(* truncate to the same integers.                                          *)
(***************************************************************************)
\* BalancedCombatSystem._calculate_player_power:
\* int(level*20 + attack*8 + defense*6 + max_health*0.4 + speed*2 + crit*3)
calculate_player_power(stats, level) ==
    (level * 20) + (stats.attack * 8) + (stats.defense * 6)
        + ((stats.max_health * 2) \div 5)
        + (stats.speed * 2) + (stats.critical_chance * 3)

\* location_multipliers.get(location_difficulty, 1.1), in hundredths.
LocationMultiplier(location_difficulty) ==
    CASE location_difficulty = "forest_easy" -> 80
      [] location_difficulty = "forest_normal" -> 100
      [] location_difficulty = "dungeon_floor_1" -> 110
      [] location_difficulty = "dungeon_floor_2" -> 125
      [] location_difficulty = "dungeon_floor_3" -> 140
      [] location_difficulty = "arena" -> 130
      [] location_difficulty = "boss" -> 180
      [] OTHER -> 110

\* target_enemy_power = player_power * 0.85 * location_mult, in units of
\* 1/2000 (0.85 * mult/100 = 17 * mult / 2000).
TargetPower(player_power, mult) == player_power * mult * 17

\* int(target_enemy_power * pct/100)
PowerShare(target, pct) == (target * pct) \div (2000 * 100)

\* int(value * pct/100): the behaviour corrections.
Scaled(value, pct) == (value * pct) \div 100

\* BalancedCombatSystem._calculate_experience_reward
calculate_experience_reward(enemy_level, player_level, mult) ==
    LET base_exp == enemy_level * 25
        level_diff == enemy_level - player_level
        level_mult == IF level_diff <= -2 THEN 5
                      ELSE IF level_diff <= 0 THEN 8
                      ELSE IF level_diff <= 2 THEN 10
                      ELSE 12
    IN  (base_exp * level_mult * mult) \div 1000

\* Enemy.__post_init__ for an Enemy built without a health argument.
PostInit(e) ==
    IF e.health = 100 /\ e.max_health # 100
    THEN [e EXCEPT !.health = e.max_health] ELSE e

\* The behaviour corrections of scale_enemy_for_player.
BehaviorCorrection(e, behavior) ==
    CASE behavior = "aggressive" ->
           [e EXCEPT !.attack = Scaled(e.attack, 120),
                     !.defense = Scaled(e.defense, 85),
                     !.max_health = Scaled(e.max_health, 85)]
      [] behavior = "defensive" ->
           [e EXCEPT !.defense = Scaled(e.defense, 120),
                     !.max_health = Scaled(e.max_health, 120),
                     !.attack = Scaled(e.attack, 85)]
      [] behavior = "berserker" ->
           [e EXCEPT !.attack = Scaled(e.attack, 130),
                     !.defense = Scaled(e.defense, 80)]
      [] OTHER -> e

\* The minimum values without the final health assignment.
MinimumValuesKeepHealth(e) ==
    [e EXCEPT !.max_health = Max(20, e.max_health),
              !.attack = Max(5, e.attack),
              !.defense = Max(1, e.defense)]

\* The minimum values and scaled_enemy.health = scaled_enemy.max_health.
MinimumValues(e) ==
    [e EXCEPT !.max_health = Max(20, e.max_health),
              !.attack = Max(5, e.attack),
              !.defense = Max(1, e.defense),
              !.health = Max(20, e.max_health)]

\* BalancedCombatSystem.scale_enemy_for_player with the level roll
\* random.randint(-1, 1).
scale_enemy_for_player(base_enemy, ch, location_difficulty, level_roll) ==
    LET player_stats == get_total_stats(ch)
        player_power == calculate_player_power(player_stats, ch.level)
        location_mult == LocationMultiplier(location_difficulty)
        target_enemy_power == TargetPower(player_power, location_mult)
        enemy_level == Max(1, ch.level + level_roll)
        scaled_enemy ==
            PostInit(
              [enemy_id |-> base_enemy.enemy_id,
               level |-> enemy_level,
               behavior |-> base_enemy.behavior,
               max_health |-> PowerShare(target_enemy_power, 35),
               health |-> 100,
               attack |-> PowerShare(target_enemy_power, 40),
               defense |-> PowerShare(target_enemy_power, 25),
               magic_power |-> 0,
               speed |-> base_enemy.speed + enemy_level,
               critical_chance |-> base_enemy.critical_chance,
               block_chance |-> base_enemy.block_chance,
               special_abilities |-> base_enemy.special_abilities,
               magic_resistance |-> base_enemy.magic_resistance,
               physical_resistance |-> base_enemy.physical_resistance,
               experience_reward |->
                   calculate_experience_reward(enemy_level, ch.level, location_mult),
               gold_min |-> (enemy_level * 12 * location_mult * 8) \div 1000,
               gold_max |-> (enemy_level * 12 * location_mult * 12) \div 1000])
    IN  MinimumValues(BehaviorCorrection(scaled_enemy, base_enemy.behavior))

\* The fields of the EnemyManager templates that start_combat hands to the
\* scaler.
EnemyTemplate(enemy_id) ==
    CASE enemy_id = "forest_wolf" ->
           [enemy_id |-> enemy_id, behavior |-> "aggressive", speed |-> 15,
            critical_chance |-> 8, block_chance |-> 5,
            special_abilities |-> <<"howl">>,
            magic_resistance |-> 0, physical_resistance |-> 0]
      [] enemy_id = "giant_spider" ->
           [enemy_id |-> enemy_id, behavior |-> "defensive", speed |-> 12,
            critical_chance |-> 5, block_chance |-> 15,
            special_abilities |-> <<"poison_bite", "web_trap">>,
            magic_resistance |-> 0, physical_resistance |-> 0]
      [] enemy_id = "wild_boar" ->
           [enemy_id |-> enemy_id, behavior |-> "berserker", speed |-> 8,
            critical_chance |-> 12, block_chance |-> 8,
            special_abilities |-> <<"charge", "rage">>,
            magic_resistance |-> 0, physical_resistance |-> 15]
      [] enemy_id = "forest_troll" ->
           [enemy_id |-> enemy_id, behavior |-> "defensive", speed |-> 8,
            critical_chance |-> 8, block_chance |-> 20,
            special_abilities |-> <<"regeneration", "tree_smash">>,
            magic_resistance |-> 0, physical_resistance |-> 30]
      [] enemy_id = "skeleton_warrior" ->
           [enemy_id |-> enemy_id, behavior |-> "balanced", speed |-> 12,
            critical_chance |-> 5, block_chance |-> 18,
            special_abilities |-> <<"bone_throw">>,
            magic_resistance |-> 0, physical_resistance |-> 20]
      [] enemy_id = "ghost" ->
           [enemy_id |-> enemy_id, behavior |-> "coward", speed |-> 25,
            critical_chance |-> 20, block_chance |-> 30,
            special_abilities |-> <<"phase", "chill_touch">>,
            magic_resistance |-> 50, physical_resistance |-> 0]

(***************************************************************************)
(* equipment.py / inventory_manager.py: upgrade resolution.                *)
(***************************************************************************)
\* The fixed cap of the upgrade tier: `upgrade_level >= 40`.
MAX_UPGRADE == 40

\* int(50 * (1.5 ** upgrade_level)) = floor(50 * 3^u / 2^u), computed
\* exactly: 50 * 3^u = q * 2^u + r with 0 <= r < 2^u = p (r and p two-limb
\* numbers); one step multiplies by 3/2.  The float expression of the code
\* has this value for every tier 0..39.
RECURSIVE GoldCostFrom(_, _, _, _)
GoldCostFrom(q, r, p, n) ==
    IF n = 0 THEN q
    ELSE LET p2 == BigMulSmall(p, 2)
             rem == BigAdd(IF (3 * q) % 2 = 1 THEN p ELSE BigZero,
                           BigMulSmall(r, 3))
             carry == IF BigGE(rem, p2) THEN 1 ELSE 0
             q2 == ((3 * q) \div 2) + carry
             r2 == IF carry = 1 THEN BigSub(rem, p2) ELSE rem
         IN  IF q2 >= q THEN GoldCostFrom(q2, r2, p2, n - 1) ELSE q

UpgradeGoldCost == [u \in 0 .. (MAX_UPGRADE - 1) |-> GoldCostFrom(50, BigZero, BigOf(1), u)]

\* EquipmentManager.get_upgrade_cost; the empty dictionary of the cap is
\* read with cost.get(key, 0) by its callers (success_rate with default 50).
get_upgrade_cost(upgrade_level) ==
    IF upgrade_level >= MAX_UPGRADE
    THEN [gods_stone |-> 0, gold |-> 0, success_rate |-> 50]
    ELSE [gods_stone |-> 1 + (upgrade_level \div 3),
          gold |-> UpgradeGoldCost[upgrade_level],
          success_rate |-> Max(30, 90 - (upgrade_level * 2))]

\* new_level with the level raised by two on success.
NewLevelTwoSteps(upgrade_level, success) ==
    IF success THEN upgrade_level + 2 ELSE upgrade_level

\* "new_level": upgrade_level + 1 if success else upgrade_level
NewLevel(upgrade_level, success) ==
    IF success THEN upgrade_level + 1 ELSE upgrade_level

\* EquipmentManager.attempt_upgrade with the roll random.randint(1, 100)
attempt_upgrade(upgrade_level, roll) ==
    IF upgrade_level >= MAX_UPGRADE
    THEN [success |-> FALSE, reason |-> "max_level"]
    ELSE LET cost == get_upgrade_cost(upgrade_level)
             success == roll <= cost.success_rate
         IN  [success |-> success,
              new_level |-> NewLevel(upgrade_level, success),
              materials_consumed |-> [gods_stone |-> cost.gods_stone,
                                      gold |-> cost.gold]]

\* The gold check made against the gods_stone amount of the cost.
InsufficientGoldWrongKey(gold, cost) == gold < cost.gods_stone

\* character.gold < cost.get("gold", 0)
InsufficientGold(gold, cost) == gold < cost.gold

\* equipment.materials["gods_stone"] < cost.get("gods_stone", 0)
InsufficientGodsStone(stones, cost) == stones < cost.gods_stone

\* A failed upgrade that writes the balances back unchanged.
FailedUpgradeFree(gold, stones, cost) ==
    [gold |-> gold, gods_stone |-> stones]

\* The failed branch of upgrade_item: "still consume materials".
FailedUpgradeWrites(gold, stones, cost) ==
    [gold |-> gold - cost.gold, gods_stone |-> stones - cost.gods_stone]

\* Whether (item_id, item_type) names the equipped weapon or armor.
IsEquipped(eq, item_id, item_type) ==
    \/ item_type = "weapon" /\ eq.equipped_weapon = item_id
    \/ item_type = "armor" /\ eq.equipped_armor = item_id

\* current_upgrade of the equipped item of that type
CurrentUpgrade(eq, item_type) ==
    IF item_type = "weapon" THEN eq.weapon_upgrade_level
    ELSE eq.armor_upgrade_level

\* InventoryManager.upgrade_item on the rows read at its start: the gold of
\* the characters row, the CharacterEquipment row, and what it returns (the
\* dictionary of a success has no "reason" key: "none" here).
upgrade_item(gold, eq, item_id, item_type, roll) ==
    LET current_upgrade == CurrentUpgrade(eq, item_type)
        cost == get_upgrade_cost(current_upgrade)
        refused(reason) ==
            [gold |-> gold, eq |-> eq,
             ret |-> [success |-> FALSE, reason |-> reason]]
    IN  IF ~IsEquipped(eq, item_id, item_type) THEN refused("item_not_equipped")
        ELSE IF current_upgrade >= MAX_UPGRADE THEN refused("max_upgrade")
        ELSE IF InsufficientGodsStone(eq.gods_stone, cost)
             THEN refused("insufficient_gods_stone")
        ELSE IF InsufficientGold(gold, cost) THEN refused("insufficient_gold")
        ELSE LET upgrade_result == attempt_upgrade(current_upgrade, roll)
             IN  IF upgrade_result.success
                 THEN [gold |-> gold - cost.gold,
                       eq |-> IF item_type = "weapon"
                              THEN [eq EXCEPT
                                      !.weapon_upgrade_level = upgrade_result.new_level,
                                      !.gods_stone = eq.gods_stone - cost.gods_stone]
                              ELSE [eq EXCEPT
                                      !.armor_upgrade_level = upgrade_result.new_level,
                                      !.gods_stone = eq.gods_stone - cost.gods_stone],
                       ret |-> [success |-> TRUE, reason |-> "none",
                                new_level |-> upgrade_result.new_level,
                                materials_used |-> upgrade_result.materials_consumed]]
                 ELSE LET w == FailedUpgradeWrites(gold, eq.gods_stone, cost)
                      IN  [gold |-> w.gold,
                           eq |-> [eq EXCEPT !.gods_stone = w.gods_stone],
                           ret |-> [success |-> FALSE, reason |-> "upgrade_failed",
                                    materials_used |-> upgrade_result.materials_consumed]]

(***************************************************************************)
(* items.py: consumables.                                                  *)
(***************************************************************************)
\* Item.item_type of the catalogue entries used here; "none" when
\* ItemManager.get_item finds nothing.
ItemTypeOf(item_id) ==
    CASE item_id \in {"iron_sword", "wooden_staff", "hunting_bow", "steel_sword"}
           -> "weapon"
      [] item_id \in {"leather_armor", "apprentice_robe", "padded_armor"} -> "armor"
      [] item_id \in {"small_health_potion", "phoenix_feather", "strength_potion",
                      "health_potion", "greater_health_potion", "bread"}
           -> "consumable"
      [] OTHER -> "none"

\* consumable_effects['health'] of the catalogue entries used here; 0 for
\* an item without that effect.
ConsumableHealth(item_id) ==
    CASE item_id = "small_health_potion" -> 50
      [] item_id = "health_potion" -> 100
      [] item_id = "greater_health_potion" -> 200
      [] item_id = "bread" -> 20
      [] OTHER -> 0

\* The 'health' effect added without the cap at max_health.
use_consumable_uncapped(item_id, ch) ==
    CASE ConsumableHealth(item_id) > 0 ->
           [ch EXCEPT !.health = ch.health + ConsumableHealth(item_id)]
      [] item_id = "phoenix_feather" ->
           IF ch.health <= 0 THEN [ch EXCEPT !.health = ch.max_health \div 2]
           ELSE ch
      [] OTHER -> ch

\* ItemManager.use_consumable on the character: the potions and bread
\* {'health': v}, phoenix_feather {'resurrect': 0.5}, strength_potion
\* {'temp_attack': 10} (reported only).
use_consumable(item_id, ch) ==
    CASE ConsumableHealth(item_id) > 0 ->
           [ch EXCEPT !.health = Min(ch.health + ConsumableHealth(item_id),
                                     ch.max_health)]
      [] item_id = "phoenix_feather" ->
           IF ch.health <= 0 THEN [ch EXCEPT !.health = ch.max_health \div 2]
           ELSE ch
      [] OTHER -> ch

\* CharacterManager.use_consumable_item
use_consumable_item(ch, item_id) ==
    IF ItemTypeOf(item_id) = "none" THEN [ch |-> ch, success |-> FALSE]
    ELSE IF ItemTypeOf(item_id) # "consumable" THEN [ch |-> ch, success |-> FALSE]
    ELSE [ch |-> use_consumable(item_id, ch), success |-> TRUE]

(***************************************************************************)
(* combat.py: damage formula and the turns of CombatManager.  A combat     *)
(* state st has the fields of CombatState; of combat_log the model keeps   *)
(* the last LastTurns records and the length (log_len).                    *)
(***************************************************************************)
\* 'last_turns': combat_state.combat_log[-2:]
LastTurns == 2

\* The turn cap of start_combat: `combat_state.turn_number > 50`.
MAX_TURNS == 50

\* The two ends of random.uniform(0.85, 1.15), in hundredths.
VarianceDraws == {85, 115}

\* Values of random.randint(1, 100) around a percentage threshold.
Rolls(threshold) == {r \in {1, threshold, threshold + 1, 100} : r \in 1 .. 100}

\* The damage formula with a magic hit facing the full defense.
calculate_balanced_damage_magic_full_defense(attacker_power, defender_defense, is_critical, is_magic, variance) ==
    LET defense_part == 60 * defender_defense
        base_damage == (85 * attacker_power) - defense_part
        minimum_damage == 20 * attacker_power
        max_reduced_damage == 20 * attacker_power
        final_damage == Max(Max(base_damage, minimum_damage), max_reduced_damage)
        varied == final_damage * variance
    IN  Max(1, IF is_critical THEN (varied * 7) \div (4 * 100 * 100)
               ELSE varied \div (100 * 100))

\* The damage formula returning int(final_damage) without `max(1, ...)`.
calculate_balanced_damage_no_floor(attacker_power, defender_defense, is_critical, is_magic, variance) ==
    LET defense_part == IF is_magic THEN 30 * defender_defense
                        ELSE 60 * defender_defense
        base_damage == (85 * attacker_power) - defense_part
        minimum_damage == 20 * attacker_power
        max_reduced_damage == 20 * attacker_power
        final_damage == Max(Max(base_damage, minimum_damage), max_reduced_damage)
        varied == final_damage * variance
    IN  IF is_critical THEN (varied * 7) \div (4 * 100 * 100)
        ELSE varied \div (100 * 100)

\* BalancedCombatSystem.calculate_balanced_damage with the variance drawn:
\* hundredths of base, minimum and max_reduced; critical_multiplier 7/4.
calculate_balanced_damage(attacker_power, defender_defense, is_critical, is_magic, variance) ==
    LET defense_part == IF is_magic THEN 30 * defender_defense
                        ELSE 60 * defender_defense
        base_damage == (85 * attacker_power) - defense_part
        minimum_damage == 20 * attacker_power
        max_reduced_damage == 20 * attacker_power
        final_damage == Max(Max(base_damage, minimum_damage), max_reduced_damage)
        varied == final_damage * variance
    IN  Max(1, IF is_critical THEN (varied * 7) \div (4 * 100 * 100)
               ELSE varied \div (100 * 100))

\* Character.is_alive (of database.database_models)
CharacterIsAlive(ch) == ch.health > 0

\* Enemy.is_alive
EnemyIsAlive(e) == e.health > 0

\* Damage applied to the character without the floor at 0.
DamageCharacterUnclamped(ch, damage) ==
    [ch EXCEPT !.health = ch.health - damage]

\* CombatManager._damage_character
DamageCharacter(ch, damage) ==
    [ch EXCEPT !.health = Max(0, ch.health - damage)]

\* Enemy.take_damage: the enemy after the hit and the damage taken.
take_damage(e, damage, damage_type) ==
    LET resistance == IF damage_type = "physical" THEN e.physical_resistance
                      ELSE IF damage_type = "magic" THEN e.magic_resistance
                      ELSE 0
        actual == IF resistance > 0
                  THEN Max(1, damage - ((damage * resistance) \div 100))
                  ELSE damage
    IN  [enemy |-> [e EXCEPT !.health = Max(0, e.health - actual)],
         actual |-> actual]

\* Enemy.heal
heal(e, amount) == [e EXCEPT !.health = Min(e.max_health, e.health + amount)]

\* The chance of Enemy.should_use_ability, by health percentage.
AbilityChance(e) ==
    IF e.health * 100 < 30 * e.max_health THEN 40
    ELSE IF e.health * 100 < 50 * e.max_health THEN 25
    ELSE 15

\* CombatManager._add_effect
AddEffect(effects, effect_id, effect_data) ==
    [k \in (DOMAIN effects) \cup {effect_id} |->
        IF k = effect_id THEN effect_data ELSE effects[k]]

\* A CombatTurn record (names and message texts left out; `note` tells the
\* messages of one action apart).
CombatTurn(actor, action, damage_dealt, is_critical, is_blocked, special_effect, note) ==
    [actor |-> actor, action |-> action, damage_dealt |-> damage_dealt,
     is_critical |-> is_critical, is_blocked |-> is_blocked,
     special_effect |-> special_effect, note |-> note]

\* combat_state.combat_log.append(turn)
LogAppend(st, turn) ==
    [st EXCEPT !.combat_log = IF Len(@) < LastTurns THEN Append(@, turn)
                              ELSE Append(Tail(@), turn),
               !.log_len = @ + 1]

\* CombatManager._player_attack: every outcome of the critical roll and
\* the variance, as the state after the hit and the turn record.
player_attack(st, is_magic_attack) ==
    LET total_stats == get_total_stats(st.character)
        magic == is_magic_attack /\ total_stats.magic_power > 0
        attack_power == IF magic THEN total_stats.magic_power
                        ELSE total_stats.attack
    IN  {LET is_critical == roll <= total_stats.critical_chance
             damage == calculate_balanced_damage(attack_power, st.enemy.defense,
                                                 is_critical, magic, variance)
             hit == take_damage(st.enemy, damage,
                                IF magic THEN "magic" ELSE "physical")
         IN  [st |-> [st EXCEPT !.enemy = hit.enemy],
              turn |-> CombatTurn("player",
                                  IF magic THEN "magic_attack" ELSE "attack",
                                  hit.actual, is_critical, FALSE, "", "")] :
         roll \in Rolls(total_stats.critical_chance), variance \in VarianceDraws}

\* CombatManager._player_defend
player_defend(st) ==
    {[st |-> [st EXCEPT !.character_effects =
                AddEffect(@, "defense_stance",
                          [type |-> "defense_bonus", value |-> 10, duration |-> 1])],
      turn |-> CombatTurn("player", "defend", 0, FALSE, FALSE, "", "")]}

\* _player_use_item falling back to a small health potion when no item id
\* is given.
player_use_item_default_potion(st, item_id) ==
    LET used == IF item_id = "" THEN "small_health_potion" ELSE item_id
        r == use_consumable_item(st.character, used)
    IN  {[st |-> [st EXCEPT !.character = r.ch],
          turn |-> CombatTurn("player", "use_item", 0, FALSE, FALSE, "",
                              IF r.success THEN "used" ELSE "not_used")]}

\* CombatManager._player_use_item; item_id "" stands for no item given.
player_use_item(st, item_id) ==
    IF item_id = ""
    THEN {[st |-> st,
           turn |-> CombatTurn("player", "use_item", 0, FALSE, FALSE, "", "no_item")]}
    ELSE LET r == use_consumable_item(st.character, item_id)
         IN  {[st |-> [st EXCEPT !.character = r.ch],
               turn |-> CombatTurn("player", "use_item", 0, FALSE, FALSE, "",
                                   IF r.success THEN "used" ELSE "not_used")]}

\* CombatManager._enemy_attack
enemy_attack(st) ==
    LET total_stats == get_total_stats(st.character)
        blocked == {[st |-> st,
                     turn |-> CombatTurn("enemy", "attack", 0, FALSE, TRUE, "", "")] :
                    roll \in {r \in Rolls(total_stats.block_chance) :
                                r <= total_stats.block_chance}}
        landed ==
            {LET is_critical == crit_roll <= st.enemy.critical_chance
                 damage == calculate_balanced_damage(st.enemy.attack,
                                                     total_stats.defense,
                                                     is_critical, FALSE, variance)
             IN  [st |-> [st EXCEPT !.character = DamageCharacter(@, damage)],
                  turn |-> CombatTurn("enemy", "attack", damage, is_critical,
                                      FALSE, "", "")] :
             roll \in {r \in Rolls(total_stats.block_chance) :
                         r > total_stats.block_chance},
             crit_roll \in Rolls(st.enemy.critical_chance),
             variance \in VarianceDraws}
    IN  blocked \cup landed

\* CombatManager._enemy_defend
enemy_defend(st) ==
    {[st |-> [st EXCEPT !.enemy_effects =
                AddEffect(@, "defense_stance",
                          [type |-> "defense_bonus", value |-> 8, duration |-> 1])],
      turn |-> CombatTurn("enemy", "defend", 0, FALSE, FALSE, "", "")]}

\* CombatManager._enemy_special_ability with random.choice over the list.
enemy_special_ability(st) ==
    IF st.enemy.special_abilities = <<>> THEN enemy_attack(st)
    ELSE UNION {
           LET ability == st.enemy.special_abilities[i]
           IN  IF ability = "poison_bite"
               THEN {LET damage == calculate_balanced_damage(st.enemy.attack + 5, 0,
                                                             FALSE, FALSE, variance)
                     IN  [st |-> [st EXCEPT
                                    !.character = DamageCharacter(@, damage),
                                    !.character_effects =
                                        AddEffect(@, "poison",
                                                  [type |-> "damage_over_time",
                                                   value |-> 3, duration |-> 3])],
                          turn |-> CombatTurn("enemy", "special_ability", 0, FALSE,
                                              FALSE, ability, "")] :
                     variance \in VarianceDraws}
               ELSE IF ability = "regeneration"
               THEN {[st |-> [st EXCEPT !.enemy = heal(@, @.max_health \div 10)],
                      turn |-> CombatTurn("enemy", "special_ability", 0, FALSE,
                                          FALSE, ability, "")]}
               ELSE enemy_attack(st) :
           i \in 1 .. Len(st.enemy.special_abilities)}

\* CombatManager._enemy_turn
enemy_turn(st) ==
    LET special == IF st.enemy.special_abilities # <<>>
                      /\ \E r \in Rolls(AbilityChance(st.enemy)) :
                            r <= AbilityChance(st.enemy)
                   THEN enemy_special_ability(st) ELSE {}
        plain == IF st.enemy.special_abilities = <<>>
                    \/ \E r \in Rolls(AbilityChance(st.enemy)) :
                          r > AbilityChance(st.enemy)
                 THEN (IF \E r \in Rolls(st.enemy.block_chance) :
                             r <= st.enemy.block_chance
                       THEN enemy_defend(st) ELSE {})
                      \cup
                      (IF \E r \in Rolls(st.enemy.block_chance) :
                             r > st.enemy.block_chance
                       THEN enemy_attack(st) ELSE {})
                 ELSE {}
    IN  special \cup plain

\* The dictionary returned while the fight goes on.
Ongoing(st, turn_count, flee_failed) ==
    [st |-> st,
     ret |-> [result |-> "ongoing", turn_count |-> turn_count,
              experience_gained |-> 0, gold_gained |-> 0, level_up |-> FALSE,
              flee_failed |-> flee_failed]]

\* _end_combat reporting the gold of a victory without adding it to
\* character.gold.
end_combat_gold_not_paid(st, turn_count, res) ==
    IF res = "victory"
    THEN {LET exp == add_experience(st.character, BigOf(st.enemy.experience_reward))
          IN  [st |-> [st EXCEPT !.character = exp.ch],
               ret |-> [result |-> res, turn_count |-> turn_count,
                        character_health |-> st.character.health,
                        enemy_health |-> st.enemy.health,
                        experience_gained |-> st.enemy.experience_reward,
                        gold_gained |-> gold, level_up |-> exp.ret.level_up,
                        flee_failed |-> FALSE]] :
          gold \in {st.enemy.gold_min, st.enemy.gold_max}}
    ELSE {[st |-> st,
           ret |-> [result |-> res, turn_count |-> turn_count,
                    character_health |-> st.character.health,
                    enemy_health |-> st.enemy.health,
                    experience_gained |-> 0, gold_gained |-> 0,
                    level_up |-> FALSE, flee_failed |-> FALSE]]}

\* CombatManager._end_combat with the gold roll random.randint(gold_min,
\* gold_max) taken at either end.
end_combat(st, turn_count, res) ==
    IF res = "victory"
    THEN {LET paid == [st.character EXCEPT !.gold = @ + gold]
              exp == add_experience(paid, BigOf(st.enemy.experience_reward))
          IN  [st |-> [st EXCEPT !.character = exp.ch],
               ret |-> [result |-> res, turn_count |-> turn_count,
                        character_health |-> st.character.health,
                        enemy_health |-> st.enemy.health,
                        experience_gained |-> st.enemy.experience_reward,
                        gold_gained |-> gold, level_up |-> exp.ret.level_up,
                        flee_failed |-> FALSE]] :
          gold \in {st.enemy.gold_min, st.enemy.gold_max}}
    ELSE {[st |-> st,
           ret |-> [result |-> res, turn_count |-> turn_count,
                    character_health |-> st.character.health,
                    enemy_health |-> st.enemy.health,
                    experience_gained |-> 0, gold_gained |-> 0,
                    level_up |-> FALSE, flee_failed |-> FALSE]]}

\* The flee chance clamped to [0, 1] instead of [0.1, 0.9].
calculate_flee_chance_unit_clamp(character_speed, enemy_speed) ==
    LET speed_diff == character_speed - enemy_speed
        flee_chance == 50 + (speed_diff * 2)
    IN  Max(0, Min(100, flee_chance))

\* CombatManager._calculate_flee_chance, in hundredths:
\* max(0.1, min(0.9, FLEE_BASE_CHANCE + speed_diff * 0.02))
calculate_flee_chance(character_speed, enemy_speed) ==
    LET speed_diff == character_speed - enemy_speed
        flee_chance == 50 + (speed_diff * 2)
    IN  Max(10, Min(90, flee_chance))

\* Values of random.random(), in hundredths: both ends of [0, 1) and the
\* values around the chances 0.1, 0.5, 0.7 and 0.9.
FleeDraws == {0, 9, 10, 49, 50, 69, 70, 89, 90, 99}

\* _player_flee returning Ongoing after a failed attempt without giving the
\* enemy its turn.
player_flee_drawn_enemy_skipped(st, turn_count, draw) ==
    LET total_stats == get_total_stats(st.character)
        flee_chance == calculate_flee_chance(total_stats.speed, st.enemy.speed)
        success == draw < flee_chance
        turn == CombatTurn("player", "flee", 0, FALSE, FALSE, "", "")
        logged == LogAppend(st, turn)
    IN  IF success THEN end_combat(logged, turn_count, "flee_success")
        ELSE IF ~CharacterIsAlive(logged.character)
        THEN end_combat(logged, turn_count, "defeat")
        ELSE {Ongoing(logged, turn_count, TRUE)}

\* CombatManager._player_flee with the value drawn by random.random().
player_flee_drawn(st, turn_count, draw) ==
    LET total_stats == get_total_stats(st.character)
        flee_chance == calculate_flee_chance(total_stats.speed, st.enemy.speed)
        success == draw < flee_chance
        turn == CombatTurn("player", "flee", 0, FALSE, FALSE, "", "")
        logged == LogAppend(st, turn)
    IN  IF success THEN end_combat(logged, turn_count, "flee_success")
        ELSE UNION {LET after == LogAppend(o.st, o.turn)
                    IN  IF ~CharacterIsAlive(after.character)
                        THEN end_combat(after, turn_count, "defeat")
                        ELSE {Ongoing(after, turn_count, TRUE)} :
                    o \in enemy_turn(logged)}

\* CombatManager._player_flee over the draws.
player_flee(st, turn_count) ==
    UNION {player_flee_drawn(st, turn_count, draw) : draw \in FleeDraws}

\* CombatManager.process_player_action: every outcome of one call, as the
\* combat state it leaves and the dictionary it returns.
process_player_action(st, turn_count, action, item_id) ==
    IF action = "flee" THEN player_flee(st, turn_count)
    ELSE LET played ==
                 CASE action = "attack" -> player_attack(st, FALSE)
                   [] action = "magic_attack" -> player_attack(st, TRUE)
                   [] action = "defend" -> player_defend(st)
                   [] action = "use_item" -> player_use_item(st, item_id)
                   [] OTHER ->
                        {[st |-> st,
                          turn |-> CombatTurn("", "attack", 0, FALSE, FALSE, "",
                                              "unknown_action")]}
             answered(s1) ==
                 IF EnemyIsAlive(s1.enemy) /\ CharacterIsAlive(s1.character)
                 THEN {LogAppend(o.st, o.turn) : o \in enemy_turn(s1)}
                 ELSE {s1}
             concluded(s2) ==
                 IF ~CharacterIsAlive(s2.character)
                 THEN end_combat(s2, turn_count, "defeat")
                 ELSE IF ~EnemyIsAlive(s2.enemy)
                 THEN end_combat(s2, turn_count, "victory")
                 ELSE {Ongoing(s2, turn_count, FALSE)}
         IN  UNION {UNION {concluded(s2) : s2 \in answered(LogAppend(p.st, p.turn))} :
                    p \in played}

\* CombatManager.start_combat(character, enemy, auto_combat=False): the
\* enemy is scaled, a CombatState is made, the first turn begins (no effect
\* is active yet) and the state is handed back for the player's input.
start_combat(ch, template, location_difficulty, level_roll) ==
    LET balanced_enemy == scale_enemy_for_player(template, ch, location_difficulty,
                                                 level_roll)
        st == [character |-> ch, enemy |-> balanced_enemy,
               character_effects |-> <<>>, enemy_effects |-> <<>>,
               combat_log |-> <<>>, log_len |-> 0]
    IN  IF ~CharacterIsAlive(ch) THEN end_combat(st, 1, "defeat")
        ELSE IF ~EnemyIsAlive(balanced_enemy) THEN end_combat(st, 1, "victory")
        ELSE {Ongoing(st, 1, FALSE)}

\* CombatManager.start_combat(character, enemy, auto_combat=False) for an
\* enemy made by scale_enemy_for_player.  Such an Enemy has an enemy_id, so
\* base_enemy_data is built from it and handed to the scaler again; its
\* behavior is the plain string the scaler was given, which has no
\* `.value`, so the behaviour handed on is 'balanced'.
start_combat_scaled(ch, scaled_enemy, location_difficulty, level_roll) ==
    LET base_enemy_data ==
            [enemy_id |-> scaled_enemy.enemy_id,
             behavior |-> "balanced",
             speed |-> scaled_enemy.speed,
             critical_chance |-> scaled_enemy.critical_chance,
             block_chance |-> scaled_enemy.block_chance,
             special_abilities |-> scaled_enemy.special_abilities,
             magic_resistance |-> scaled_enemy.magic_resistance,
             physical_resistance |-> scaled_enemy.physical_resistance]
    IN  start_combat(ch, base_enemy_data, location_difficulty, level_roll)

\* The damage-over-time effects of the character applied one after the
\* other (_process_turn_effects, first loop).
RECURSIVE DotCharacter(_, _, _)
DotCharacter(ch, effects, ids) ==
    IF ids = {} THEN ch
    ELSE LET k == CHOOSE x \in ids : TRUE
             hurt == IF effects[k].type = "damage_over_time"
                     THEN DamageCharacter(ch, effects[k].value) ELSE ch
         IN  DotCharacter(hurt, effects, ids \ {k})

\* The damage-over-time effects of the enemy, through Enemy.take_damage
\* with its default damage type (_process_turn_effects, second loop).
RECURSIVE DotEnemy(_, _, _)
DotEnemy(e, effects, ids) ==
    IF ids = {} THEN e
    ELSE LET k == CHOOSE x \in ids : TRUE
             hurt == IF effects[k].type = "damage_over_time"
                     THEN take_damage(e, effects[k].value, "physical").enemy
                     ELSE e
         IN  DotEnemy(hurt, effects, ids \ {k})

\* effect['duration'] -= 1 for every effect, those at 0 deleted.
TickDurations(effects) ==
    LET kept == {k \in DOMAIN effects : effects[k].duration - 1 > 0}
    IN  IF kept = {} THEN <<>>
        ELSE [k \in kept |-> [effects[k] EXCEPT !.duration = @ - 1]]

\* CombatManager._process_turn_effects
process_turn_effects(st) ==
    [st EXCEPT
       !.character = DotCharacter(@, st.character_effects,
                                  DOMAIN st.character_effects),
       !.character_effects = TickDurations(@),
       !.enemy = DotEnemy(@, st.enemy_effects, DOMAIN st.enemy_effects),
       !.enemy_effects = TickDurations(@)]

\* CombatManager._player_auto_turn
player_auto_turn(st) ==
    LET total_stats == get_total_stats(st.character)
    IN  IF total_stats.magic_power > total_stats.attack
        THEN player_attack(st, TRUE)
        ELSE player_attack(st, FALSE)

\* The two turns of one auto-combat exchange in the order of the speeds;
\* the CombatTurn records the handlers return are dropped by the loop.
AutoExchange(st) ==
    LET char_speed == get_total_stats(st.character).speed
        enemy_speed == st.enemy.speed
    IN  IF char_speed >= enemy_speed
        THEN UNION {IF EnemyIsAlive(p.st.enemy)
                    THEN {o.st : o \in enemy_turn(p.st)} ELSE {p.st} :
                    p \in player_auto_turn(st)}
        ELSE UNION {IF CharacterIsAlive(o.st.character)
                    THEN {p.st : p \in player_auto_turn(o.st)} ELSE {o.st} :
                    o \in enemy_turn(st)}

\* What one pass of the loop hands on: the combat state, the dictionary
\* returned ("running" while the loop goes on) and the warning logged.
LoopOutcome(o, warning) == [st |-> o.st, ret |-> o.ret, warning |-> warning]

\* A pass of the loop that tests the turn cap before the two is_alive
\* tests.
combat_loop_turn_cap_first(st, turn_count, auto_combat) ==
    IF turn_count > MAX_TURNS
    THEN {LoopOutcome(o, "combat_timeout") : o \in end_combat(st, turn_count, "defeat")}
    ELSE IF ~CharacterIsAlive(st.character)
    THEN {LoopOutcome(o, "none") : o \in end_combat(st, turn_count, "defeat")}
    ELSE IF ~EnemyIsAlive(st.enemy)
    THEN {LoopOutcome(o, "none") : o \in end_combat(st, turn_count, "victory")}
    ELSE LET ticked == process_turn_effects(st)
         IN  IF auto_combat
             THEN {[st |-> s2, ret |-> [result |-> "running"], warning |-> "none"] :
                   s2 \in AutoExchange(ticked)}
             ELSE {LoopOutcome(Ongoing(ticked, turn_count, FALSE), "none")}

\* One pass of the `while True` loop of CombatManager.start_combat, for the
\* turn number already incremented: the end-of-combat tests, the turn cap
\* (with its logger.warning), the effects of the turn and either the
\* exchange of auto-combat or the return for the player's input.
combat_loop_turn(st, turn_count, auto_combat) ==
    IF ~CharacterIsAlive(st.character)
    THEN {LoopOutcome(o, "none") : o \in end_combat(st, turn_count, "defeat")}
    ELSE IF ~EnemyIsAlive(st.enemy)
    THEN {LoopOutcome(o, "none") : o \in end_combat(st, turn_count, "victory")}
    ELSE IF turn_count > MAX_TURNS
    THEN {LoopOutcome(o, "combat_timeout") : o \in end_combat(st, turn_count, "defeat")}
    ELSE LET ticked == process_turn_effects(st)
         IN  IF auto_combat
             THEN {[st |-> s2, ret |-> [result |-> "running"], warning |-> "none"] :
                   s2 \in AutoExchange(ticked)}
             ELSE {LoopOutcome(Ongoing(ticked, turn_count, FALSE), "none")}

(***************************************************************************)
(* States shared by the specifications: the parts of the state a           *)
(* specification does not exercise stay at these values.                   *)
(***************************************************************************)
NoEnemy == [enemy_id |-> "none"]
NoEquipment == [user_id |-> 0]
NoResult == [op |-> "none"]

(***************************************************************************)
(* SpecLevel: experience grants (CharacterManager.add_experience) applied  *)
(* to characters of every class at levels near 1 and near MAX_LEVEL.       *)
(***************************************************************************)
\* Levels within LevelWindow of level 1 and of MAX_LEVEL are explored.
LevelWindow == 2
\* Number of add_experience calls in one run.
MaxGrants == 3

StartLevels == (1 .. (1 + LevelWindow)) \cup ((MAX_LEVEL - LevelWindow) .. MAX_LEVEL)

\* experience_needed of a character at level L: BASE_EXP_REQUIRED raised
\* once per level-up by level_up's int(experience_needed * EXP_MULTIPLIER).
\* (Each step is computed before the next one is taken; a threshold that no
\* longer grows is its own successor.)
RECURSIVE RaisedThreshold(_, _)
RaisedThreshold(needed, n) ==
    IF n = 0 THEN needed
    ELSE LET next == NextThreshold(needed)
         IN  IF next = needed THEN needed ELSE RaisedThreshold(next, n - 1)

ThresholdAt(L) == RaisedThreshold(BigOf(BASE_EXP_REQUIRED), L - 1)

\* The character of class c that has levelled up n times with no experience
\* left over: create_character followed by n times level_up.
Leveled(c, n) ==
    LET b == LevelBonus(c)
        ch == create_character(c)
        Grown(cur, bonus) == IF bonus > 0 THEN cur + n * bonus ELSE cur
    IN  [ch EXCEPT
           !.level = 1 + n,
           !.experience_needed = ThresholdAt(1 + n),
           !.max_health = ch.max_health + n * b.health,
           !.health = ch.max_health + n * b.health,
           !.max_mana = ch.max_mana + n * b.mana,
           !.mana = ch.max_mana + n * b.mana,
           !.attack = Grown(ch.attack, b.attack),
           !.defense = Grown(ch.defense, b.defense),
           !.magic_power = Grown(ch.magic_power, b.magic_power),
           !.speed = Grown(ch.speed, b.speed),
           !.critical_chance = Grown(ch.critical_chance, b.critical_chance),
           !.block_chance = Grown(ch.block_chance, b.block_chance)]

LeveledCharacter == [c \in Classes, L \in StartLevels |-> Leveled(c, L - 1)]

\* Experience amounts granted to character ch: nothing, one point, just
\* below / exactly at / beyond the next one, two and three thresholds.
GrantAmounts(ch) ==
    LET t1 == ch.experience_needed
        t2 == NextThreshold(t1)
        t3 == NextThreshold(t2)
        gap == IF BigGE(ch.experience, t1) THEN BigZero
               ELSE BigSub(t1, ch.experience)
    IN  {BigZero, BigOf(1), gap, t1,
         BigAdd(gap, BigSub(t2, BigOf(1))),
         BigAdd(gap, t2),
         BigAdd(gap, BigAdd(t2, t3))}
        \cup (IF BigGE(gap, BigOf(1)) THEN {BigSub(gap, BigOf(1))} ELSE {})

InitLevel ==
    /\ \E c \in Classes, L \in StartLevels :
         \E hurt \in BOOLEAN, partial \in BOOLEAN :
           character =
             [LeveledCharacter[c, L] EXCEPT
                !.health = IF hurt THEN 1 ELSE @,
                !.mana = IF hurt THEN 0 ELSE @,
                !.experience =
                   IF partial
                   THEN BigSub(LeveledCharacter[c, L].experience_needed, BigOf(1))
                   ELSE @]
    /\ enemy = NoEnemy
    /\ turn_number = 0
    /\ character_effects = <<>>
    /\ enemy_effects = <<>>
    /\ combat_log = <<>>
    /\ log_len = 0
    /\ equipment = NoEquipment
    /\ result = NoResult
    /\ calls = 0
    /\ tasks = NoTasks
    /\ active_rests = NoRests
    /\ rest_data = <<>>

\* One call of CharacterManager.add_experience(character, exp_amount).
AddExperience ==
    /\ calls < MaxGrants
    /\ \E amt \in GrantAmounts(character) :
         LET r == add_experience(character, amt)
         IN  /\ character' = r.ch
             /\ result' = r.ret
    /\ calls' = calls + 1
    /\ UNCHANGED <<enemy, turn_number, character_effects, enemy_effects,
                   combat_log, log_len, equipment,
                   tasks, active_rests, rest_data>>

NextLevel == AddExperience

SpecLevel == InitLevel /\ [][NextLevel]_vars

(***************************************************************************)
(* Properties of leveling (checked under SpecLevel).                       *)
(***************************************************************************)
\* C7 (as stated): after add_experience returns, for every granted amount
\* and every starting level from 1 up to the maximum level, the experience
\* is strictly below experience_needed.
C7_ExperienceBelowThreshold ==
    result.op = "add_experience" =>
        BigLT(character.experience, character.experience_needed)

\* C7 (amended): after add_experience returns, the experience is strictly
\* below experience_needed unless the character is at the maximum level,
\* where the loop of add_experience no longer runs.
C7_ExperienceBelowThresholdOrMaxLevel ==
    result.op = "add_experience" =>
        \/ BigLT(character.experience, character.experience_needed)
        \/ character.level = MAX_LEVEL

\* A grant that crossed several thresholds was resolved below the cap.
C7_Witness ==
    /\ result.op = "add_experience"
    /\ result.levels_gained >= 2
    /\ character.level < MAX_LEVEL
    /\ BigLT(character.experience, character.experience_needed)

\* The sum of k successive thresholds starting at `needed`.
RECURSIVE SumThresholds(_, _)
SumThresholds(needed, k) ==
    IF k = 0 THEN BigZero
    ELSE BigAdd(needed, SumThresholds(NextThreshold(needed), k - 1))

\* A step that is one add_experience call.
IsGrant == result'.op = "add_experience" /\ calls' = calls + 1

\* What k level-ups do to the character: one level per threshold, the old
\* thresholds subtracted, the threshold raised k times by the growth
\* factor, the class bonus added to the maxima and a full restore.
LevelUpEffects(old, new, ret) ==
    LET k == ret.levels_gained
        b == LevelBonus(old.character_class)
    IN  /\ new.level = old.level + k
        /\ ret.old_level = old.level /\ ret.new_level = new.level
        /\ BigAdd(new.experience, SumThresholds(old.experience_needed, k))
             = BigAdd(old.experience, ret.exp_gained)
        /\ new.experience_needed = RaisedThreshold(old.experience_needed, k)
        /\ new.max_health = old.max_health + k * b.health
        /\ new.max_mana = old.max_mana + k * b.mana
        /\ k > 0 => new.health = new.max_health /\ new.mana = new.max_mana
        /\ k = 0 => new.health = old.health /\ new.mana = old.mana

\* C8 (as stated): each experience threshold crossed inside add_experience
\* advances the level by exactly one (none is left crossed), subtracts the
\* old threshold, raises the threshold by the growth factor and restores
\* health and mana to the new maxima; granting exactly experience_needed to
\* a character with 0 experience yields exactly one level.
C8_EveryThresholdAdvances ==
    [][IsGrant =>
         /\ LevelUpEffects(character, character', result')
         /\ BigLT(character'.experience, character'.experience_needed)
         /\ (character.experience = BigZero
               /\ result'.exp_gained = character.experience_needed)
            => result'.levels_gained = 1]_vars

\* C8 (amended): the same for every threshold crossed while the level is
\* below the maximum level; granting exactly experience_needed to a
\* character with 0 experience below the maximum level yields one level.
C8_EveryThresholdBelowCapAdvances ==
    [][IsGrant =>
         /\ LevelUpEffects(character, character', result')
         /\ character'.level < MAX_LEVEL =>
               BigLT(character'.experience, character'.experience_needed)
         /\ (character.experience = BigZero
               /\ character.level < MAX_LEVEL
               /\ result'.exp_gained = character.experience_needed)
            => result'.levels_gained = 1]_vars

\* An exact grant to a hurt character with no experience gave one level and
\* a full restore.
C8_Witness ==
    /\ result.op = "add_experience"
    /\ result.levels_gained = 1
    /\ result.exp_gained = ThresholdAt(result.old_level)
    /\ character.experience = BigZero
    /\ character.health = character.max_health
    /\ calls = 1


(***************************************************************************)
(* SpecUpgrade: InventoryManager.upgrade_item called on characters whose   *)
(* equipped weapon and armor are at tiers near 0 and near MAX_UPGRADE.     *)
(***************************************************************************)
\* Tiers within UpgradeWindow of 0 and of MAX_UPGRADE are explored.
UpgradeWindow == 2
\* Number of upgrade_item calls in one run.
MaxUpgradeCalls == 3

StartTiers == (0 .. UpgradeWindow) \cup ((MAX_UPGRADE - UpgradeWindow) .. MAX_UPGRADE)

\* Gold balances around the declared cost of tier u: none, one short,
\* exactly enough, enough for this tier and the next.
GoldChoices(u) ==
    LET cost == get_upgrade_cost(u)
    IN  {0, Max(0, cost.gold - 1), cost.gold,
         cost.gold + get_upgrade_cost(u + 1).gold}

\* gods_stone balances around the declared cost of tier u.
StoneChoices(u) ==
    LET cost == get_upgrade_cost(u)
    IN  {0, Max(0, cost.gods_stone - 1), cost.gods_stone,
         cost.gods_stone + get_upgrade_cost(u + 1).gods_stone}

\* Values of random.randint(1, 100) around the success rate of tier u.
UpgradeRolls(u) ==
    LET rate == get_upgrade_cost(u).success_rate
    IN  {1, rate, rate + 1, 100}

\* An item id that is in the catalogue but not equipped.
SpareItem == "steel_sword"

InitUpgrade ==
    /\ \E c \in Classes, wt \in StartTiers, at \in StartTiers :
         /\ \E g \in GoldChoices(wt) \cup GoldChoices(at) :
              character = [create_character(c) EXCEPT !.gold = g]
         /\ \E s \in StoneChoices(wt) \cup StoneChoices(at) :
              equipment = [user_id |-> 1,
                           equipped_weapon |-> StartEquipment(c).weapon,
                           equipped_armor |-> StartEquipment(c).armor,
                           weapon_upgrade_level |-> wt,
                           armor_upgrade_level |-> at,
                           gods_stone |-> s]
    /\ enemy = NoEnemy
    /\ turn_number = 0
    /\ character_effects = <<>>
    /\ enemy_effects = <<>>
    /\ combat_log = <<>>
    /\ log_len = 0
    /\ result = NoResult
    /\ calls = 0
    /\ tasks = NoTasks
    /\ active_rests = NoRests
    /\ rest_data = <<>>

\* One call of InventoryManager.upgrade_item(user_id, item_id, item_type);
\* the arguments are kept beside the returned dictionary.
UpgradeItem ==
    /\ calls < MaxUpgradeCalls
    /\ \E item_id \in {equipment.equipped_weapon, equipment.equipped_armor, SpareItem},
          item_type \in {"weapon", "armor"} :
         \E roll \in UpgradeRolls(CurrentUpgrade(equipment, item_type)) :
           LET r == upgrade_item(character.gold, equipment, item_id, item_type, roll)
           IN  /\ character' = [character EXCEPT !.gold = r.gold]
               /\ equipment' = r.eq
               /\ result' = [op |-> "upgrade_item", item_id |-> item_id,
                             item_type |-> item_type, ret |-> r.ret]
    /\ calls' = calls + 1
    /\ UNCHANGED <<enemy, turn_number, character_effects, enemy_effects,
                   combat_log, log_len,
                   tasks, active_rests, rest_data>>

NextUpgrade == UpgradeItem

SpecUpgrade == InitUpgrade /\ [][NextUpgrade]_vars

(***************************************************************************)
(* Properties of upgrading (checked under SpecUpgrade).                    *)
(***************************************************************************)
\* A step that is one upgrade_item call.
IsUpgrade == result'.op = "upgrade_item" /\ calls' = calls + 1

\* The call of this step names the equipped item of its type.
UpgradeOfEquipped == IsEquipped(equipment, result'.item_id, result'.item_type)

\* Tier of the requested item type before and after the step, and the cost
\* declared for the tier before it.
TierBefore == CurrentUpgrade(equipment, result'.item_type)
TierAfter == CurrentUpgrade(equipment', result'.item_type)
DeclaredCost == get_upgrade_cost(TierBefore)

\* Neither gold, gods_stone nor any tier changes in the step.
NothingConsumed ==
    /\ character'.gold = character.gold
    /\ equipment' = equipment

\* C4: every upgrade attempt on an equipped item below the cap, by a player
\* holding at least the declared cost in gold and gods_stone, debits exactly
\* the declared cost, whether the roll succeeds or fails.
C4_AttemptDebitsDeclaredCost ==
    [][(/\ IsUpgrade
        /\ UpgradeOfEquipped
        /\ TierBefore < MAX_UPGRADE
        /\ character.gold >= DeclaredCost.gold
        /\ equipment.gods_stone >= DeclaredCost.gods_stone)
       => /\ character'.gold = character.gold - DeclaredCost.gold
          /\ equipment'.gods_stone = equipment.gods_stone - DeclaredCost.gods_stone
          /\ result'.ret.reason \in {"none", "upgrade_failed"}
          /\ result'.ret.materials_used = [gods_stone |-> DeclaredCost.gods_stone,
                                           gold |-> DeclaredCost.gold]]_vars

\* A failed roll at a high tier has been paid for.
C4_Witness ==
    /\ result.op = "upgrade_item"
    /\ result.ret.reason = "upgrade_failed"
    /\ result.ret.materials_used.gold > 1000 * 1000

\* C5: a successful upgrade raises the tier of the item by exactly one, a
\* failed one leaves it unchanged, and the tier stays within 0..40.
C5_TierStepsByOne ==
    [][IsUpgrade
       => /\ result'.ret.success => TierAfter = TierBefore + 1
          /\ ~result'.ret.success => TierAfter = TierBefore
          /\ \A t \in {"weapon", "armor"} :
               /\ CurrentUpgrade(equipment', t) \in 0 .. MAX_UPGRADE
               /\ t # result'.item_type
                    => CurrentUpgrade(equipment', t) = CurrentUpgrade(equipment, t)]_vars

\* An item was raised to the cap by a successful roll.
C5_Witness ==
    /\ result.op = "upgrade_item"
    /\ result.ret.success
    /\ result.ret.new_level = MAX_UPGRADE
    /\ CurrentUpgrade(equipment, result.item_type) = MAX_UPGRADE

\* C6: an upgrade of an equipped item at the maximum tier, or with fewer
\* gods_stone or less gold than the declared cost, returns its own failure
\* reason (max_upgrade, insufficient_gods_stone, insufficient_gold) and
\* consumes nothing.
C6_RefusalsConsumeNothing ==
    [][(IsUpgrade /\ UpgradeOfEquipped)
       => /\ TierBefore >= MAX_UPGRADE
               => result'.ret.reason = "max_upgrade" /\ NothingConsumed
          /\ (TierBefore < MAX_UPGRADE
              /\ equipment.gods_stone < DeclaredCost.gods_stone)
               => result'.ret.reason = "insufficient_gods_stone" /\ NothingConsumed
          /\ (TierBefore < MAX_UPGRADE
              /\ equipment.gods_stone >= DeclaredCost.gods_stone
              /\ character.gold < DeclaredCost.gold)
               => result'.ret.reason = "insufficient_gold" /\ NothingConsumed]_vars

\* A player with enough gods_stone but one gold short was refused.
C6_Witness ==
    /\ result.op = "upgrade_item"
    /\ result.ret.reason = "insufficient_gold"
    /\ character.gold > 0
    /\ character.gold =
         get_upgrade_cost(CurrentUpgrade(equipment, result.item_type)).gold - 1


(***************************************************************************)
(* SpecScale: BalancedCombatSystem.scale_enemy_for_player applied to the   *)
(* characters of every class near level 1 and near MAX_LEVEL and to the    *)
(* weakest character record, for every template, location and level roll. *)
(***************************************************************************)
\* Number of scale_enemy_for_player calls in one run.
MaxScaleCalls == 1

\* A level-1 character record with the least stats and nothing equipped.
MinimalCharacter ==
    [create_character("mage") EXCEPT
       !.health = 1, !.max_health = 1, !.mana = 0, !.max_mana = 0,
       !.attack = 0, !.defense = 0, !.magic_power = 0, !.speed = 0,
       !.critical_chance = 0, !.block_chance = 0,
       !.weapon = "none", !.armor = "none"]

ScaleCharacters ==
    {LeveledCharacter[c, L] : c \in Classes, L \in StartLevels}
        \cup {MinimalCharacter}

ScaleTemplates ==
    {"forest_wolf", "giant_spider", "wild_boar", "skeleton_warrior", "ghost"}

\* The keys of location_multipliers and one key that is not in the table.
Locations ==
    {"forest_easy", "forest_normal", "dungeon_floor_1", "dungeon_floor_2",
     "dungeon_floor_3", "arena", "boss", "swamp"}

InitScale ==
    /\ character \in ScaleCharacters
    /\ enemy = NoEnemy
    /\ turn_number = 0
    /\ character_effects = <<>>
    /\ enemy_effects = <<>>
    /\ combat_log = <<>>
    /\ log_len = 0
    /\ equipment = NoEquipment
    /\ result = NoResult
    /\ calls = 0
    /\ tasks = NoTasks
    /\ active_rests = NoRests
    /\ rest_data = <<>>

\* One call of scale_enemy_for_player(base_enemy, character, location).
ScaleEnemy ==
    /\ calls < MaxScaleCalls
    /\ \E id \in ScaleTemplates, loc \in Locations, level_roll \in -1 .. 1 :
         /\ enemy' = scale_enemy_for_player(EnemyTemplate(id), character, loc, level_roll)
         /\ result' = [op |-> "scale_enemy", location |-> loc,
                       behavior |-> EnemyTemplate(id).behavior,
                       player_power |->
                           calculate_player_power(get_total_stats(character),
                                                  character.level)]
    /\ calls' = calls + 1
    /\ UNCHANGED <<character, turn_number, character_effects, enemy_effects,
                   combat_log, log_len, equipment,
                   tasks, active_rests, rest_data>>

\* The caller of the dungeon handler: start_combat is given the enemy that
\* scale_enemy_for_player returned for the encounter, with the difficulty
\* it was scaled for.  The result keeps the enemy that was supplied.
StartCombatScaled ==
    /\ result.op = "scale_enemy"
    /\ \E level_roll \in -1 .. 1 :
         \E o \in start_combat_scaled(character, enemy, result.location, level_roll) :
           /\ character' = o.st.character
           /\ enemy' = o.st.enemy
           /\ character_effects' = o.st.character_effects
           /\ enemy_effects' = o.st.enemy_effects
           /\ combat_log' = o.st.combat_log
           /\ log_len' = o.st.log_len
           /\ result' = [op |-> "start_combat", supplied |-> enemy, ret |-> o.ret]
    /\ turn_number' = 1
    /\ UNCHANGED <<equipment, calls,
                   tasks, active_rests, rest_data>>

NextScale == ScaleEnemy \/ StartCombatScaled

SpecScale == InitScale /\ [][NextScale]_vars

(***************************************************************************)
(* Properties of enemy scaling (checked under SpecScale).                  *)
(***************************************************************************)
\* The PowerEstimator formula applied to the scaled enemy.
EnemyPower == calculate_player_power(enemy, enemy.level)

\* C9: for every character, location key and behaviour tag, the estimated
\* power of the enemy returned by scale_enemy_for_player is within 25% of
\* 0.85 * playerPower * locationMultiplier (3/4 of the target <= power <=
\* 5/4 of the target, the target being TargetPower / 2000), whatever the
\* level roll.  Stated for the characters built by create_character and
\* leveling, whose enemies are not held up by the minimum values.
C9_EnemyPowerWithinBand ==
    (result.op = "scale_enemy" /\ character # MinimalCharacter) =>
        LET target == TargetPower(result.player_power,
                                  LocationMultiplier(result.location))
        IN  /\ 8000 * EnemyPower >= 3 * target
            /\ 1600 * EnemyPower <= target

\* C10: the enemy returned by scale_enemy_for_player is viable for every
\* character, behaviour tag and location key: max_health >= 20,
\* attack >= 5, defense >= 1, level >= 1 and health = max_health.
C10_ScaledEnemyViable ==
    result.op = "scale_enemy" =>
        /\ enemy.max_health >= 20
        /\ enemy.attack >= 5
        /\ enemy.defense >= 1
        /\ enemy.level >= 1
        /\ enemy.health = enemy.max_health

\* The weakest character met an enemy held up by the health and attack
\* floors at a location that is not in the multiplier table.
C10_Witness ==
    /\ result.op = "scale_enemy"
    /\ character = MinimalCharacter
    /\ result.location = "swamp"
    /\ result.behavior = "defensive"
    /\ enemy.max_health = 20 /\ enemy.health = 20
    /\ enemy.attack = 5
    /\ enemy.level = 1

\* C17: start_combat fights the enemy instance its caller supplies: given an
\* enemy already produced by scale_enemy_for_player, the CombatState it
\* returns holds that instance with the same max_health, attack, defense,
\* speed and current health; the enemy is not scaled a second time.
C17_SuppliedEnemyFought ==
    result.op = "start_combat" =>
        /\ enemy.max_health = result.supplied.max_health
        /\ enemy.attack = result.supplied.attack
        /\ enemy.defense = result.supplied.defense
        /\ enemy.speed = result.supplied.speed
        /\ enemy.health = result.supplied.health

(***************************************************************************)
(* Spec: manual combat.  CombatManager.start_combat(auto_combat=False)     *)
(* opens an encounter and the caller submits player actions with           *)
(* process_player_action, which accepts a call in any combat state.        *)
(***************************************************************************)
\* Number of process_player_action calls in one run.
MaxActions == 2

\* The combat state held in the variables.
CombatStateNow ==
    [character |-> character, enemy |-> enemy,
     character_effects |-> character_effects, enemy_effects |-> enemy_effects,
     combat_log |-> combat_log, log_len |-> log_len]

\* Characters entering combat: every class at level 1 and at MAX_LEVEL, at
\* full health or at none.
CombatCharacters == {LeveledCharacter[c, L] : c \in Classes, L \in {1, MAX_LEVEL}}

\* Templates with a damaging ability, a healing ability and resistances.
CombatTemplates == {"giant_spider", "forest_troll", "ghost"}

CombatLocations == {"forest_easy"}

\* The actions a caller can submit; "special_ability" is a CombatAction
\* that process_player_action has no branch for.
Requests ==
    {[action |-> a, item_id |-> ""] :
        a \in {"attack", "magic_attack", "defend", "flee", "special_ability"}}
    \cup {[action |-> "use_item", item_id |-> i] :
            i \in {"", "small_health_potion", "phoenix_feather", "strength_potion",
                   "iron_sword", "unknown_item"}}

Init ==
    /\ \E ch \in CombatCharacters :
         \E h \in {ch.max_health, 0} : character = [ch EXCEPT !.health = h]
    /\ enemy = NoEnemy
    /\ turn_number = 0
    /\ character_effects = <<>>
    /\ enemy_effects = <<>>
    /\ combat_log = <<>>
    /\ log_len = 0
    /\ equipment = NoEquipment
    /\ result = NoResult
    /\ calls = 0
    /\ tasks = NoTasks
    /\ active_rests = NoRests
    /\ rest_data = <<>>

\* The variables take the combat state o.st and the returned dictionary.
Returned(o, op, action, item_id) ==
    /\ character' = o.st.character
    /\ enemy' = o.st.enemy
    /\ character_effects' = o.st.character_effects
    /\ enemy_effects' = o.st.enemy_effects
    /\ combat_log' = o.st.combat_log
    /\ log_len' = o.st.log_len
    /\ result' = [op |-> op, action |-> action, item_id |-> item_id, ret |-> o.ret]

\* One call of start_combat in manual mode, for a character not yet in an
\* encounter.
StartCombat ==
    /\ enemy = NoEnemy
    /\ \E id \in CombatTemplates, loc \in CombatLocations, level_roll \in -1 .. 1 :
         \E o \in start_combat(character, EnemyTemplate(id), loc, level_roll) :
           Returned(o, "start_combat", "", "")
    /\ turn_number' = 1
    /\ UNCHANGED <<equipment, calls,
                   tasks, active_rests, rest_data>>

\* One call of process_player_action on the combat state, whatever the
\* previous call returned.
ProcessPlayerAction ==
    /\ enemy # NoEnemy
    /\ calls < MaxActions
    /\ \E req \in Requests :
         \E o \in process_player_action(CombatStateNow, turn_number,
                                        req.action, req.item_id) :
           Returned(o, "process_player_action", req.action, req.item_id)
    /\ calls' = calls + 1
    /\ UNCHANGED <<turn_number, equipment,
                   tasks, active_rests, rest_data>>

Next == StartCombat \/ ProcessPlayerAction

Spec == Init /\ [][Next]_vars

(***************************************************************************)
(* Properties of manual combat (checked under Spec).                       *)
(***************************************************************************)
\* C1: for the character and the enemy of a combat state, 0 <= health <=
\* max_health holds before and after every process_player_action call, for
\* every action kind and random outcome, given that it holds when the
\* encounter starts.
C1_HealthWithinBounds ==
    /\ 0 <= character.health /\ character.health <= character.max_health
    /\ enemy # NoEnemy =>
         (0 <= enemy.health /\ enemy.health <= enemy.max_health)

\* A blow larger than the character's remaining health left it at 0.
C1_Witness ==
    /\ result.op = "process_player_action"
    /\ result.ret.result = "defeat"
    /\ character.health = 0
    /\ Len(combat_log) > 0
    /\ combat_log[Len(combat_log)].actor = "enemy"
    /\ combat_log[Len(combat_log)].damage_dealt > character.max_health
\* A step that is one process_player_action call.
IsAction == result'.op = "process_player_action" /\ calls' = calls + 1

\* The last call on the combat state returned a terminal result.
TerminalReturned ==
    /\ result.op \in {"start_combat", "process_player_action"}
    /\ result.ret.result \in {"victory", "defeat", "flee_success"}

\* C3: a player action submitted with process_player_action on a combat
\* state that has already produced a terminal result is rejected and leaves
\* the state unchanged: character health, gold, experience and level, enemy
\* health and the combat log are as they were before the call.
C3_ActionAfterTerminalRejected ==
    [][(TerminalReturned /\ IsAction)
       => /\ character'.health = character.health
          /\ character'.gold = character.gold
          /\ character'.experience = character.experience
          /\ character'.level = character.level
          /\ enemy'.health = enemy.health
          /\ combat_log' = combat_log
          /\ log_len' = log_len]_vars

\* The fight was going on when the call was made.
OngoingReturned ==
    /\ result.op \in {"start_combat", "process_player_action"}
    /\ result.ret.result = "ongoing"

\* A step that is a UseItem action without an item id or with an id the
\* catalogue does not have.
IsUnusableItemAction ==
    /\ IsAction
    /\ result'.action = "use_item"
    /\ result'.item_id \in {"", "unknown_item"}

\* C14: a UseItem action with a missing or unknown item id is a no-op for
\* the character (the player's own action changes neither health, mana nor
\* gold: what health is lost is the damage of the enemy's turn), appends a
\* USE_ITEM log record carrying a descriptive message, and still consumes
\* the turn: the enemy takes its turn within the same call.
C14_UnusableItemIsNoOpTurn ==
    [][(OngoingReturned /\ IsUnusableItemAction)
       => /\ log_len' = log_len + 2
          /\ LET own == combat_log'[Len(combat_log') - 1]
                 reply == combat_log'[Len(combat_log')]
             IN  /\ own.actor = "player"
                 /\ own.action = "use_item"
                 /\ own.note = (IF result'.item_id = "" THEN "no_item"
                                ELSE "not_used")
                 /\ reply.actor = "enemy"
                 /\ reply.action \in {"attack", "defend", "special_ability"}
                 /\ reply.action = "attack"
                      => character'.health =
                           Max(0, character.health - reply.damage_dealt)
                 /\ reply.action = "defend"
                      => character'.health = character.health
          /\ character'.health <= character.health
          /\ character'.mana = character.mana
          /\ character'.gold = character.gold
          /\ character'.experience = character.experience
          /\ enemy'.health >= enemy.health]_vars

\* An unknown item id was submitted, the record of the failed use is in the
\* log and the enemy's answer to it hurt the character.
C14_Witness ==
    /\ result.op = "process_player_action"
    /\ result.action = "use_item"
    /\ result.item_id = "unknown_item"
    /\ result.ret.result = "ongoing"
    /\ Len(combat_log) = 2
    /\ combat_log[1].note = "not_used"
    /\ combat_log[2].actor = "enemy"
    /\ combat_log[2].damage_dealt > 0
    /\ character.health < character.max_health

\* A step in which process_player_action resolved the player's turn and
\* the enemy's turn of a fight that was going on: two records were logged.
IsExchange ==
    /\ OngoingReturned
    /\ IsAction
    /\ result'.action # "flee"
    /\ log_len' = log_len + 2

\* C18: in every exchange of an encounter the combatant with the higher
\* effective speed acts first, the character when the speeds are equal;
\* stated for the exchanges resolved by process_player_action in manual
\* mode, whose first logged record is the turn taken first.
C18_FasterActsFirst ==
    [][IsExchange
       => LET first == combat_log'[Len(combat_log') - 1]
          IN  IF get_total_stats(character).speed >= enemy.speed
              THEN first.actor = "player"
              ELSE first.actor = "enemy"]_vars

\* C19: after a Defend action the next incoming hit on the defender is
\* computed against the defender's effective defense plus the flat defend
\* bonus of 10; stated for the enemy attack that answers the Defend within
\* the same process_player_action call.
C19_DefendBonusApplied ==
    [][(IsExchange /\ result'.action = "defend")
       => LET reply == combat_log'[Len(combat_log')]
          IN  (reply.action = "attack" /\ ~reply.is_blocked)
                => reply.damage_dealt \in
                     {calculate_balanced_damage(
                          enemy.attack, get_total_stats(character).defense + 10,
                          reply.is_critical, FALSE, variance) :
                      variance \in VarianceDraws}]_vars

\* C20: at the start of every full turn each active effect applies its
\* per-tick value and has its remaining duration decremented, and is
\* removed when the duration reaches 0; stated for a poison on the
\* character over one process_player_action call in manual mode, unless
\* the enemy's poison_bite of that call applied it anew.
C20_PoisonTicksEachTurn ==
    [][(OngoingReturned /\ IsAction /\ "poison" \in DOMAIN character_effects)
       => LET reply == combat_log'[Len(combat_log')]
          IN  reply.special_effect # "poison_bite"
                => IF character_effects["poison"].duration = 1
                   THEN "poison" \notin DOMAIN character_effects'
                   ELSE /\ "poison" \in DOMAIN character_effects'
                        /\ character_effects'["poison"].duration
                             = character_effects["poison"].duration - 1]_vars

(***************************************************************************)
(* SpecEncounter: one manual encounter played to its end.  The caller      *)
(* stops submitting actions once a terminal result has been returned.      *)
(***************************************************************************)
\* Number of process_player_action calls in one encounter.
EncounterCalls == 51

EncounterCharacters == {LeveledCharacter["warrior", 1]}

\* A player who defends or tries to flee.
EncounterRequests ==
    {[action |-> a, item_id |-> ""] : a \in {"defend", "flee"}}

InitEncounter ==
    /\ character \in EncounterCharacters
    /\ enemy = NoEnemy
    /\ turn_number = 0
    /\ character_effects = <<>>
    /\ enemy_effects = <<>>
    /\ combat_log = <<>>
    /\ log_len = 0
    /\ equipment = NoEquipment
    /\ result = NoResult
    /\ calls = 0
    /\ tasks = NoTasks
    /\ active_rests = NoRests
    /\ rest_data = <<>>

\* start_combat in manual mode against a giant_spider in the easy forest.
StartEncounter ==
    /\ enemy = NoEnemy
    /\ \E level_roll \in -1 .. 1 :
         \E o \in start_combat(character, EnemyTemplate("giant_spider"),
                               "forest_easy", level_roll) :
           Returned(o, "start_combat", "", "")
    /\ turn_number' = 1
    /\ UNCHANGED <<equipment, calls,
                   tasks, active_rests, rest_data>>

\* One process_player_action call while the encounter is going on.
PlayerTurn ==
    /\ enemy # NoEnemy
    /\ result.ret.result = "ongoing"
    /\ calls < EncounterCalls
    /\ \E req \in EncounterRequests :
         \E o \in process_player_action(CombatStateNow, turn_number,
                                        req.action, req.item_id) :
           Returned(o, "process_player_action", req.action, req.item_id)
    /\ calls' = calls + 1
    /\ UNCHANGED <<turn_number, equipment,
                   tasks, active_rests, rest_data>>

NextEncounter == StartEncounter \/ PlayerTurn

SpecEncounter == InitEncounter /\ [][NextEncounter]_vars

(***************************************************************************)
(* Properties of a whole encounter (checked under SpecEncounter).          *)
(***************************************************************************)
\* C2: every encounter driven by process_player_action calls reaches a
\* terminal result after at most 50 turns: it is never still going on once
\* more than MAX_TURNS player turns have been resolved.
C2_EncounterEndsWithinCap ==
    (enemy # NoEnemy /\ result.ret.result = "ongoing") => calls <= MAX_TURNS

(***************************************************************************)
(* SpecHit: single turns.  The four handlers that land a hit                *)
(* (_player_attack physical and magic, _enemy_attack, the poison bite of   *)
(* _enemy_special_ability) and _player_flee are called on combat states    *)
(* whose attack, defense, resistance and speed values range over small     *)
(* non-negative numbers, one call per combat state.                        *)
(***************************************************************************)
\* Attack and defense values run over 0 .. MaxHitPower.
MaxHitPower == 12

\* Enemy.magic_resistance / physical_resistance, in percent.
Resistances == {0, 1, 30, 50, 99, 100}

\* A character without equipment whose attack and magic power are a and
\* whose defense is d; its speed is 5a.
HitCharacter(a, d) ==
    [create_character("mage") EXCEPT !.attack = a, !.magic_power = a,
                                     !.defense = d, !.speed = 5 * a,
                                     !.weapon = "none", !.armor = "none"]

\* A scaled giant_spider whose attack is a, defense d and resistances r;
\* its speed is 4d, so that the speed gap 5a - 4d of a combat state takes
\* every value between -48 and 60.
HitEnemy(a, d, r) ==
    [scale_enemy_for_player(EnemyTemplate("giant_spider"),
                            create_character("mage"), "forest_easy", 0)
       EXCEPT !.attack = a, !.defense = d, !.speed = 4 * d,
              !.physical_resistance = r, !.magic_resistance = r]

InitHit ==
    /\ \E a \in 0 .. MaxHitPower, d \in 0 .. MaxHitPower, r \in Resistances :
         /\ character = HitCharacter(a, d)
         /\ enemy = HitEnemy(a, d, r)
    /\ turn_number = 1
    /\ character_effects = <<>>
    /\ enemy_effects = <<>>
    /\ combat_log = <<>>
    /\ log_len = 0
    /\ equipment = NoEquipment
    /\ result = NoResult
    /\ calls = 0
    /\ tasks = NoTasks
    /\ active_rests = NoRests
    /\ rest_data = <<>>

\* The variables take the combat state o.st; the result keeps the turn
\* record and the health of both sides before the call.
Struck(o, op) ==
    /\ character' = o.st.character
    /\ enemy' = o.st.enemy
    /\ character_effects' = o.st.character_effects
    /\ enemy_effects' = o.st.enemy_effects
    /\ combat_log' = o.st.combat_log
    /\ log_len' = o.st.log_len
    /\ result' = [op |-> op, turn |-> o.turn,
                  character_health |-> character.health,
                  enemy_health |-> enemy.health]
    /\ calls' = calls + 1
    /\ UNCHANGED <<turn_number, equipment,
                   tasks, active_rests, rest_data>>

\* _player_attack, physical or magic.
HitPlayerAttack ==
    /\ calls = 0
    /\ \E is_magic_attack \in BOOLEAN :
         \E o \in player_attack(CombatStateNow, is_magic_attack) :
           Struck(o, "player_attack")

\* _enemy_attack
HitEnemyAttack ==
    /\ calls = 0
    /\ \E o \in enemy_attack(CombatStateNow) : Struck(o, "enemy_attack")

\* _enemy_special_ability
HitEnemySpecial ==
    /\ calls = 0
    /\ \E o \in enemy_special_ability(CombatStateNow) :
         Struck(o, "enemy_special_ability")

\* _player_flee with the value random.random() returned; the result keeps
\* the draw and the chance the handler computed.
HitPlayerFlee ==
    /\ calls = 0
    /\ \E draw \in FleeDraws :
         \E o \in player_flee_drawn(CombatStateNow, turn_number, draw) :
           /\ character' = o.st.character
           /\ enemy' = o.st.enemy
           /\ character_effects' = o.st.character_effects
           /\ enemy_effects' = o.st.enemy_effects
           /\ combat_log' = o.st.combat_log
           /\ log_len' = o.st.log_len
           /\ result' = [op |-> "player_flee", draw |-> draw, ret |-> o.ret,
                         flee_chance |->
                             calculate_flee_chance(get_total_stats(character).speed,
                                                   enemy.speed)]
    /\ calls' = calls + 1
    /\ UNCHANGED <<turn_number, equipment,
                   tasks, active_rests, rest_data>>

\* calculate_balanced_damage called with the attack of the character and
\* the defense of the enemy, the variance drawn at either end.
HitDamage ==
    /\ calls = 0
    /\ \E is_critical \in BOOLEAN, is_magic \in BOOLEAN, variance \in VarianceDraws :
         result' = [op |-> "calculate_balanced_damage",
                    attacker_power |-> character.attack,
                    defender_defense |-> enemy.defense,
                    is_critical |-> is_critical, is_magic |-> is_magic,
                    variance |-> variance,
                    ret |-> calculate_balanced_damage(character.attack, enemy.defense,
                                                      is_critical, is_magic, variance)]
    /\ calls' = calls + 1
    /\ UNCHANGED <<character, enemy, turn_number, character_effects, enemy_effects,
                   combat_log, log_len, equipment,
                   tasks, active_rests, rest_data>>

NextHit ==
    HitPlayerAttack \/ HitEnemyAttack \/ HitEnemySpecial \/ HitPlayerFlee \/ HitDamage

SpecHit == InitHit /\ [][NextHit]_vars

(***************************************************************************)
(* Properties of single hits (checked under SpecHit).                      *)
(***************************************************************************)
\* The last call was a hit that was not blocked.
UnblockedHit ==
    /\ result.op \in {"player_attack", "enemy_attack", "enemy_special_ability"}
    /\ ~result.turn.is_blocked

\* C11: the damage applied by every unblocked hit (player physical attack,
\* player magic attack, enemy attack, enemy poison bite) is an integer >= 1,
\* for all non-negative attack and defense values, every variance draw and
\* critical outcome, also after the enemy's resistance (0..100%): the
\* damage reported for an attack is at least 1 and the target, which had
\* health left, has lost at least 1 health.
C11_UnblockedHitDealsAtLeastOne ==
    UnblockedHit =>
      /\ result.turn.action \in {"attack", "magic_attack"}
           => result.turn.damage_dealt >= 1
      /\ result.op = "player_attack"
           => /\ result.enemy_health - enemy.health >= 1
              /\ enemy.health =
                   Max(0, result.enemy_health - result.turn.damage_dealt)
      /\ result.op \in {"enemy_attack", "enemy_special_ability"}
           => result.character_health - character.health >= 1

\* A physical hit of zero attack power on a fully resistant enemy and a
\* hit on an enemy without resistance both took exactly 1 health.
C11_Witness ==
    /\ result.op = "player_attack"
    /\ result.turn.damage_dealt = 1
    /\ character.attack = 0
    /\ enemy.physical_resistance \in {0, 100}
    /\ enemy.health = result.enemy_health - 1


(***************************************************************************)
(* Properties of the flee chance (checked under SpecHit).                  *)
(***************************************************************************)
\* The speed gap of the combat state: effective character speed minus
\* enemy speed.
SpeedGap == get_total_stats(character).speed - enemy.speed

\* 0.5 + 0.02 * gap kept within [0.1, 0.9], in hundredths.
ClampedChance(gap) ==
    IF 50 + (2 * gap) < 10 THEN 10
    ELSE IF 50 + (2 * gap) > 90 THEN 90
    ELSE 50 + (2 * gap)

\* C12: the flee chance computed for character speed s_c and enemy speed
\* s_e equals 0.5 + 0.02*(s_c - s_e) clamped to [0.1, 0.9]: exactly 0.7 for
\* a 10-point advantage, exactly 0.9 for a 40-point advantage, never below
\* 0.1 or above 0.9; and the flee succeeds exactly when the value drawn is
\* below that chance.
C12_FleeChanceClamped ==
    result.op = "player_flee" =>
      /\ result.flee_chance = ClampedChance(SpeedGap)
      /\ SpeedGap = 10 => result.flee_chance = 70
      /\ SpeedGap = 40 => result.flee_chance = 90
      /\ 10 <= result.flee_chance /\ result.flee_chance <= 90
      /\ (result.ret.result = "flee_success") <=> (result.draw < result.flee_chance)

\* With a 40-point advantage a draw of 0.9 did not get the character away.
C12_Witness ==
    /\ result.op = "player_flee"
    /\ SpeedGap = 40
    /\ result.draw = 90
    /\ result.ret.result # "flee_success"


(***************************************************************************)
(* SpecItem: consumables used on a character outside an encounter          *)
(* (CharacterManager.use_consumable_item).                                 *)
(***************************************************************************)
\* Number of use_consumable_item calls in one run.
MaxItemCalls == 2

\* Item ids handed to use_consumable_item: health-restoring consumables,
\* other consumables, a weapon and an id the catalogue does not have.
ItemIds ==
    {"small_health_potion", "health_potion", "greater_health_potion", "bread",
     "phoenix_feather", "strength_potion", "iron_sword", "unknown_item"}

\* Health of the character before the first call: none, 10, around the
\* point from which a potion of 50 fills it up, and full.
ItemHealths(ch) ==
    {0, 10, ch.max_health - 51, ch.max_health - 50, ch.max_health - 49,
     ch.max_health}

InitItem ==
    /\ \E ch \in CombatCharacters :
         \E h \in ItemHealths(ch) : character = [ch EXCEPT !.health = h]
    /\ enemy = NoEnemy
    /\ turn_number = 0
    /\ character_effects = <<>>
    /\ enemy_effects = <<>>
    /\ combat_log = <<>>
    /\ log_len = 0
    /\ equipment = NoEquipment
    /\ result = NoResult
    /\ calls = 0
    /\ tasks = NoTasks
    /\ active_rests = NoRests
    /\ rest_data = <<>>

\* One call of use_consumable_item; the result keeps the health before it.
UseConsumableItem ==
    /\ calls < MaxItemCalls
    /\ \E item_id \in ItemIds :
         LET r == use_consumable_item(character, item_id)
         IN  /\ character' = r.ch
             /\ result' = [op |-> "use_consumable_item", item_id |-> item_id,
                           success |-> r.success,
                           health_before |-> character.health]
    /\ calls' = calls + 1
    /\ UNCHANGED <<enemy, turn_number, character_effects, enemy_effects,
                   combat_log, log_len, equipment,
                   tasks, active_rests, rest_data>>

NextItem == UseConsumableItem

SpecItem == InitItem /\ [][NextItem]_vars

(***************************************************************************)
(* Properties of consumables (checked under SpecItem).                     *)
(***************************************************************************)
\* C13: using a health-restoring consumable of declared value v on a
\* character with current health h sets the character's health to exactly
\* min(h + v, max_health): a potion restoring 50 used at 10/100 gives
\* exactly 60, and the result never exceeds max_health.
C13_HealingCappedAtMaxHealth ==
    (result.op = "use_consumable_item" /\ ConsumableHealth(result.item_id) > 0)
      => /\ result.success
         /\ character.health =
              IF result.health_before + ConsumableHealth(result.item_id)
                   <= character.max_health
              THEN result.health_before + ConsumableHealth(result.item_id)
              ELSE character.max_health
         /\ character.health <= character.max_health
         /\ (result.item_id = "small_health_potion" /\ result.health_before = 10
             /\ character.max_health = 100) => character.health = 60

\* A potion of 50 took a character of 100 max_health from 10 to 60, and a
\* second one on top would overshoot.
C13_Witness ==
    /\ result.op = "use_consumable_item"
    /\ result.item_id = "small_health_potion"
    /\ result.health_before = 10
    /\ character.max_health = 100
    /\ character.health = 60
    /\ calls = 1


(***************************************************************************)
(* SpecAuto: encounters run by start_combat.  StartLoop is the part of     *)
(* start_combat before its loop (scaling, CombatState), LoopTurn one pass  *)
(* of the loop; in auto-combat the passes follow each other until a        *)
(* terminal result is returned, in manual mode the first pass returns      *)
(* Ongoing and the caller may try to flee.                                 *)
(***************************************************************************)
\* Number of flee attempts in one manual encounter.
MaxFlees == 2

\* A level-1 warrior 30 experience short of level 2 (the reward of a
\* level-1 troll leaves it at level 1, that of a level-2 troll does not),
\* at full health or at none.
AutoCharacters ==
    {[LeveledCharacter["warrior", 1] EXCEPT !.experience = BigOf(70), !.health = h] :
        h \in {100, 0}}

InitAuto ==
    /\ character \in AutoCharacters
    /\ enemy = NoEnemy
    /\ turn_number = 0
    /\ character_effects = <<>>
    /\ enemy_effects = <<>>
    /\ combat_log = <<>>
    /\ log_len = 0
    /\ equipment = NoEquipment
    /\ result = NoResult
    /\ calls = 0
    /\ tasks = NoTasks
    /\ active_rests = NoRests
    /\ rest_data = <<>>

\* start_combat up to its loop, against a forest_troll in the easy forest.
StartLoop ==
    /\ enemy = NoEnemy
    /\ \E level_roll \in -1 .. 1, auto_combat \in BOOLEAN :
         /\ enemy' = scale_enemy_for_player(EnemyTemplate("forest_troll"), character,
                                            "forest_easy", level_roll)
         /\ result' = [op |-> "start_combat", auto_combat |-> auto_combat,
                       ret |-> [result |-> "running"], warning |-> "none"]
    /\ UNCHANGED <<character, turn_number, character_effects, enemy_effects,
                   combat_log, log_len, equipment, calls,
                   tasks, active_rests, rest_data>>

\* One pass of the loop of start_combat.
LoopTurn ==
    /\ result.op = "start_combat"
    /\ result.ret.result = "running"
    /\ turn_number' = turn_number + 1
    /\ \E o \in combat_loop_turn(CombatStateNow, turn_number + 1, result.auto_combat) :
         /\ character' = o.st.character
         /\ enemy' = o.st.enemy
         /\ character_effects' = o.st.character_effects
         /\ enemy_effects' = o.st.enemy_effects
         /\ combat_log' = o.st.combat_log
         /\ log_len' = o.st.log_len
         /\ result' = [result EXCEPT !.ret = o.ret, !.warning = o.warning]
    /\ UNCHANGED <<equipment, calls,
                   tasks, active_rests, rest_data>>

\* process_player_action(FLEE) on the state a manual start_combat or a
\* failed flee handed back.
ManualFlee ==
    /\ result.op \in {"start_combat", "process_player_action"}
    /\ result.ret.result = "ongoing"
    /\ calls < MaxFlees
    /\ \E o \in process_player_action(CombatStateNow, turn_number, "flee", "") :
         /\ Returned(o, "process_player_action", "flee", "")
    /\ calls' = calls + 1
    /\ UNCHANGED <<turn_number, equipment,
                   tasks, active_rests, rest_data>>

NextAuto == StartLoop \/ LoopTurn \/ ManualFlee

SpecAuto == InitAuto /\ [][NextAuto]_vars

(***************************************************************************)
(* Properties of encounter outcomes (checked under SpecAuto).              *)
(***************************************************************************)
\* The last return was a Defeat.
DefeatReturned ==
    /\ result.op \in {"start_combat", "process_player_action"}
    /\ result.ret.result = "defeat"

\* The Defeat came from the turn cap: start_combat logged its timeout
\* warning before returning.
CapForced == result.op = "start_combat" /\ result.warning = "combat_timeout"

\* C15: a Defeat forced by the encounter turn cap is reported distinctly
\* from a Defeat caused by the character's health reaching 0: the forced
\* one is returned with character_health > 0 and a turn_count above the cap
\* (and with a timeout warning in the log), the genuine one with
\* character_health = 0, so no returned dictionary fits both.
C15_CapDefeatDistinct ==
    DefeatReturned =>
      /\ CapForced => /\ result.ret.character_health > 0
                      /\ result.ret.turn_count > MAX_TURNS
      /\ ~CapForced => result.ret.character_health = 0

\* The turn cap ended an auto-combat in which both sides were still alive.
C15_Witness ==
    /\ DefeatReturned
    /\ CapForced
    /\ result.ret.turn_count = MAX_TURNS + 1
    /\ result.ret.character_health > 0
    /\ result.ret.enemy_health > 0


\* A step in which an encounter returns a terminal result.
Concludes(res) ==
    /\ result'.op \in {"start_combat", "process_player_action"}
    /\ result'.ret.result = res
    /\ result.op \in {"start_combat", "process_player_action"}
    /\ result.ret.result \in {"running", "ongoing"}

\* The experience of the character after the step accounts for exactly
\* `reward` more than before: added to the stored experience, or, after a
\* level-up, to the stored experience plus the threshold that was paid.
GainedExactly(reward) ==
    \/ /\ character'.level = character.level
       /\ character'.experience = BigAdd(character.experience, BigOf(reward))
    \/ /\ character'.level = character.level + 1
       /\ BigAdd(character'.experience, character.experience_needed)
            = BigAdd(character.experience, BigOf(reward))

\* C16: on Victory the character gains exactly the enemy instance's
\* experience_reward as experience and a gold amount g with gold_min <= g
\* <= gold_max of that instance, and character.gold rises by exactly g; on
\* Defeat and on FleeSuccess the character's gold, experience and level
\* are left unchanged.
C16_RewardsOnlyOnVictory ==
    [][/\ Concludes("victory")
          => /\ result'.ret.experience_gained = enemy.experience_reward
             /\ GainedExactly(enemy.experience_reward)
             /\ enemy.gold_min <= result'.ret.gold_gained
             /\ result'.ret.gold_gained <= enemy.gold_max
             /\ character'.gold = character.gold + result'.ret.gold_gained
       /\ (Concludes("defeat") \/ Concludes("flee_success"))
          => /\ character'.gold = character.gold
             /\ character'.experience = character.experience
             /\ character'.level = character.level
             /\ result'.ret.experience_gained = 0
             /\ result'.ret.gold_gained = 0]_vars

\* A victory over a level-2 troll paid its gold_max and lifted the warrior
\* to level 2.
C16_Witness ==
    /\ result.op = "start_combat"
    /\ result.ret.result = "victory"
    /\ result.ret.gold_gained = enemy.gold_max
    /\ result.ret.gold_gained > enemy.gold_min
    /\ character.gold = 50 + enemy.gold_max
    /\ character.level = 2
    /\ result.ret.level_up

(***************************************************************************)
(* Properties of flee attempts (checked under Spec).                       *)
(***************************************************************************)
\* The step is a process_player_action(FLEE) call that did not escape.
FailedFlee ==
    /\ result'.op = "process_player_action"
    /\ result'.action = "flee"
    /\ result'.ret.result # "flee_success"

\* C21: when a Flee attempt fails, the enemy takes exactly one turn before
\* process_player_action returns (the log grows by the flee record and one
\* enemy record), and the call returns Ongoing, or Defeat if the character's
\* health is 0 after that enemy turn; it never returns a terminal Victory
\* or FleeSuccess from a failed flee.
C21_FailedFleeEnemyTurnThenReturn ==
    [][FailedFlee =>
        /\ log_len' = log_len + 2
        /\ combat_log'[Len(combat_log') - 1].actor = "player"
        /\ combat_log'[Len(combat_log') - 1].action = "flee"
        /\ combat_log'[Len(combat_log')].actor = "enemy"
        /\ result'.ret.result \in {"ongoing", "defeat"}
        /\ (result'.ret.result = "defeat") <=> (character'.health = 0)
        /\ (result'.ret.result = "ongoing") => result'.ret.flee_failed]_vars

\* A failed flee from a fight just opened at full health, in which the
\* enemy's hit killed the character: Defeat.
C21_Witness ==
    /\ result.op = "process_player_action"
    /\ result.action = "flee"
    /\ result.ret.result = "defeat"
    /\ calls = 1
    /\ log_len = 2
    /\ combat_log[1].action = "flee"
    /\ combat_log[2].actor = "enemy"
    /\ combat_log[2].damage_dealt >= character.max_health
    /\ character.health = 0

(***************************************************************************)
(* The damage formula as a closed expression (checked under SpecHit).      *)
(***************************************************************************)
\* max(1, floor(max(atk*0.85 - d*0.6, atk*0.2) * v * c)) with d = def for a
\* physical and def*0.5 for a magic hit, c = 1.75 on a critical hit; v in
\* hundredths, the inner maximum in two-hundredths.
ClaimedDamage(atk, def, critical, magic, v) ==
    LET twice_d == IF magic THEN def ELSE 2 * def
        inner == Max((170 * atk) - (60 * twice_d), 40 * atk)
        c == IF critical THEN 175 ELSE 100
    IN  Max(1, (inner * v * c) \div (200 * 100 * 100))

\* C22: calculate_balanced_damage(atk, def, critical, magic) equals
\* max(1, floor(max(atk*0.85 - d*0.6, atk*0.2) * v * c)), where d = def for
\* a physical hit and def*0.5 for a magic hit, v is the variance factor and
\* c = 1.75 on a critical hit and 1 otherwise; the two floor branches of
\* the code act as one single floor of 20% of attack power.
C22_DamageFormula ==
    result.op = "calculate_balanced_damage" =>
        result.ret = ClaimedDamage(result.attacker_power, result.defender_defense,
                                   result.is_critical, result.is_magic,
                                   result.variance)

\* A critical magic hit whose base damage lies above the 20% floor and
\* which the halved defense makes larger than the physical hit would be.
C22_Witness ==
    /\ result.op = "calculate_balanced_damage"
    /\ result.is_critical /\ result.is_magic
    /\ result.attacker_power = 10 /\ result.defender_defense = 8
    /\ result.variance = 115
    /\ result.ret = 12
    /\ ClaimedDamage(10, 8, TRUE, FALSE, 115) = 7

(***************************************************************************)
(* equipment.py: stats of an upgraded item.  The code computes             *)
(* int(base * (1 + 0.15 * tier)) in double precision; the double nearest   *)
(* to 1 + 0.15 * tier is K / 2^k for a 53-bit K, and its distance from the *)
(* decimal value decides whether a product that is an integer in exact     *)
(* arithmetic comes out just below that integer.                           *)
(***************************************************************************)
\* 100 * K - (100 + 15 * tier) * 2^k for the double K / 2^k that Python
\* evaluates 1 + 0.15 * tier to, tiers 1..40: negative where the double
\* lies below the decimal value.
MultiplierError ==
    <<-40, 20, -20, 40, 0, -40, -40, 40, -80, 0,
      -20, -40, 40, 20, 0, -20, -40, -60, 20, 0,
      40, -20, -80, -40, 0, 40, -20, 20, -40, 0,
      -60, -20, 20, -40, 0, -60, -20, 20, -40, 0>>

\* k: the multiplier lies in [1, 2) below tier 7, in [2, 4) below tier 20
\* and in [4, 8) from there on.
MultiplierScale(upgrade_level) ==
    IF upgrade_level < 7 THEN 52 ELSE IF upgrade_level < 20 THEN 51 ELSE 50

Abs(n) == IF n < 0 THEN 0 - n ELSE n

\* floor(log2(n)) for n >= 1
RECURSIVE Log2Floor(_)
Log2Floor(n) == IF n < 2 THEN 0 ELSE 1 + Log2Floor(n \div 2)

\* int(base_stat * multiplier) for the double multiplier of a tier >= 1.
\* A product that is not an integer in exact arithmetic is at least 1/100
\* away from one and truncates as the exact product does.  An exact
\* integer N is returned as N - 1 (in magnitude) when the double product
\* rounds to the double below N: when the shortfall
\* |base| * -error / (100 * 2^k) exceeds half the spacing of the doubles
\* below N, 2^(q - 52) for 2^q < N < 2^(q + 1) and half of that for N = 2^q
\* (a tie rounds to N, whose mantissa is even).
IntOfScaled(base_stat, upgrade_level) ==
    LET exact == Abs(base_stat) * (100 + (15 * upgrade_level))
        N == exact \div 100
        error == MultiplierError[upgrade_level]
        q == Log2Floor(N)
        half_spacing_exp == (MultiplierScale(upgrade_level) + q) - 50
        below == /\ exact % 100 = 0
                 /\ N > 0
                 /\ error < 0
                 /\ (Abs(base_stat) * (0 - error)) * 16
                      > 100 * (2 ^ (IF N = 2 ^ q THEN half_spacing_exp
                                    ELSE half_spacing_exp + 1))
        magnitude == IF below THEN N - 1 ELSE N
    IN  IF base_stat < 0 THEN 0 - magnitude ELSE magnitude

\* EquipmentManager.calculate_upgrade_stats
calculate_upgrade_stats(base_stat, upgrade_level) ==
    IF upgrade_level = 0 THEN base_stat
    ELSE IntOfScaled(base_stat, upgrade_level)

\* EquipmentItem.get_current_stats, for the base_stats and upgrade_level of
\* the item.
get_current_stats(base_stats, upgrade_level) ==
    IF upgrade_level = 0 THEN base_stats
    ELSE [k \in DOMAIN base_stats |-> IntOfScaled(base_stats[k], upgrade_level)]

(***************************************************************************)
(* SpecStats: the two upgrade-stat functions applied to one base stat and  *)
(* one tier, first calculate_upgrade_stats, then get_current_stats of an   *)
(* item carrying the stat as its attack.                                   *)
(***************************************************************************)
\* Base stats run over -MaxBaseStat .. MaxBaseStat.
MaxBaseStat == 25

InitStats ==
    /\ \E b \in (0 - MaxBaseStat) .. MaxBaseStat, t \in 0 .. MAX_UPGRADE :
         equipment = [user_id |-> 0, base_stats |-> [attack |-> b],
                      upgrade_level |-> t]
    /\ character = create_character("warrior")
    /\ enemy = NoEnemy
    /\ turn_number = 0
    /\ character_effects = <<>>
    /\ enemy_effects = <<>>
    /\ combat_log = <<>>
    /\ log_len = 0
    /\ result = NoResult
    /\ calls = 0
    /\ tasks = NoTasks
    /\ active_rests = NoRests
    /\ rest_data = <<>>

CalculateUpgradeStats ==
    /\ calls = 0
    /\ result' = [op |-> "calculate_upgrade_stats",
                  ret |-> calculate_upgrade_stats(equipment.base_stats.attack,
                                                  equipment.upgrade_level)]
    /\ calls' = 1
    /\ UNCHANGED <<character, enemy, turn_number, character_effects, enemy_effects,
                   combat_log, log_len, equipment,
                   tasks, active_rests, rest_data>>

GetCurrentStats ==
    /\ calls = 1
    /\ result' = [op |-> "get_current_stats", upgraded |-> result.ret,
                  ret |-> get_current_stats(equipment.base_stats,
                                            equipment.upgrade_level)]
    /\ calls' = 2
    /\ UNCHANGED <<character, enemy, turn_number, character_effects, enemy_effects,
                   combat_log, log_len, equipment,
                   tasks, active_rests, rest_data>>

NextStats == CalculateUpgradeStats \/ GetCurrentStats

SpecStats == InitStats /\ [][NextStats]_vars

\* base * (100 + 15 * tier) / 100 truncated toward zero.
TruncatedScaled(base, tier) ==
    LET magnitude == (Abs(base) * (100 + (15 * tier))) \div 100
    IN  IF base < 0 THEN 0 - magnitude ELSE magnitude

\* C24: for every upgrade tier 0..40 and every integer base stat, negative
\* ones included, the upgraded stat is the base unchanged at tier 0 and
\* otherwise base * (100 + 15 * tier) / 100 truncated toward zero, and
\* EquipmentManager.calculate_upgrade_stats and
\* EquipmentItem.get_current_stats return the same value for the same base
\* and tier.
C24_UpgradedStatTruncates ==
    /\ result.op = "calculate_upgrade_stats"
         => result.ret = TruncatedScaled(equipment.base_stats.attack,
                                         equipment.upgrade_level)
    /\ result.op = "get_current_stats"
         => /\ result.ret.attack = result.upgraded
            /\ result.ret.attack = TruncatedScaled(equipment.base_stats.attack,
                                                   equipment.upgrade_level)


(***************************************************************************)
(* C23: the stats combat resolution uses, against the upgrade tiers.       *)
(* CombatManager._player_attack and scale_enemy_for_player read            *)
(* CharacterManager.get_total_stats, which adds the ItemManager stats of   *)
(* character.weapon and character.armor; the tiers live in the equipment   *)
(* row that InventoryManager.upgrade_item writes.                          *)
(***************************************************************************)
\* Stats named by the claim.
UpgradedStats == {"attack", "defense", "speed"}

\* base + weapon contribution + armor contribution, each contribution being
\* the item's stat scaled by the tier of the equipment row.
TierScaledStat(ch, eq, stat) ==
    ch[stat]
    + calculate_upgrade_stats(ItemStats(eq.equipped_weapon)[stat], eq.weapon_upgrade_level)
    + calculate_upgrade_stats(ItemStats(eq.equipped_armor)[stat], eq.armor_upgrade_level)

\* C23: after a successful upgrade of an equipped item, every stat that the
\* next combat action reads from get_total_stats equals base + weapon
\* contribution + armor contribution with each contribution scaled by the
\* item's current upgrade tier.
C23_CombatStatsFollowUpgradeTier ==
    (result.op = "upgrade_item" /\ result.ret.success)
        => \A stat \in UpgradedStats :
             get_total_stats(character)[stat] = TierScaledStat(character, equipment, stat)


(***************************************************************************)
(* C25: the combat log of an auto-combat (checked under SpecAuto).         *)
(***************************************************************************)
\* A pass of the loop of start_combat in auto-combat that went through its
\* exchange: the player's automatic turn, the enemy's turn, or both, were
\* resolved and the loop goes on.
AutoExchangeStep ==
    /\ result.op = "start_combat"
    /\ result.auto_combat
    /\ result.ret.result = "running"
    /\ turn_number' = turn_number + 1
    /\ result'.ret.result = "running"

\* C25: every action resolved in an encounter appends exactly one
\* CombatTurn record to combat_log, in auto-combat as in manual mode: a
\* pass of the auto-combat loop, which resolves one or two actions, makes
\* the log one or two records longer.
C25_AutoCombatTurnsLogged ==
    [][AutoExchangeStep =>
         log_len' \in {log_len + 1, log_len + 2}]_vars


(***************************************************************************)
(* C26: the rewards of a scaled enemy (checked under SpecScale).           *)
(***************************************************************************)
\* The level-difference multiplier of the band of enemy level minus
\* character level, in tenths.
LevelBandMultiplier(level_diff) ==
    IF level_diff <= -2 THEN 5
    ELSE IF level_diff <= 0 THEN 8
    ELSE IF level_diff <= 2 THEN 10
    ELSE 12

\* int(enemy_level * 12 * location_mult * spread * level_mult), spread in
\* tenths (0.8 for gold_min, 1.2 for gold_max).
BandScaledGold(enemy_level, player_level, mult, spread) ==
    (enemy_level * 12 * mult * spread
       * LevelBandMultiplier(enemy_level - player_level)) \div (100 * 10 * 10)

\* C26: the experience reward and the gold range (gold_min, gold_max) of a
\* scaled enemy are both scaled by the location multiplier and by the
\* level-difference multiplier of the band of enemy level minus character
\* level.
C26_RewardsScaledByLocationAndBand ==
    result.op = "scale_enemy" =>
      LET mult == LocationMultiplier(result.location)
      IN  /\ enemy.experience_reward =
               (enemy.level * 25 * LevelBandMultiplier(enemy.level - character.level)
                  * mult) \div 1000
          /\ enemy.gold_min = BandScaledGold(enemy.level, character.level, mult, 8)
          /\ enemy.gold_max = BandScaledGold(enemy.level, character.level, mult, 12)


(***************************************************************************)
(* SpecPoison: auto-combat of a level-1 ranger against a giant_spider,     *)
(* whose poison_bite leaves a damage-over-time effect on the character     *)
(* that _process_turn_effects applies at the start of the later passes.    *)
(***************************************************************************)
\* Health of the ranger when the encounter starts: full, or what earlier
\* fights left, taken around the damage of one poison bite.
PoisonHealthLow == 64
PoisonHealthHigh == 72

PoisonHealths(ch) == {ch.max_health} \cup (PoisonHealthLow .. PoisonHealthHigh)

InitPoison ==
    /\ \E h \in PoisonHealths(LeveledCharacter["ranger", 1]) :
         character = [LeveledCharacter["ranger", 1] EXCEPT !.health = h]
    /\ enemy = NoEnemy
    /\ turn_number = 0
    /\ character_effects = <<>>
    /\ enemy_effects = <<>>
    /\ combat_log = <<>>
    /\ log_len = 0
    /\ equipment = NoEquipment
    /\ result = NoResult
    /\ calls = 0
    /\ tasks = NoTasks
    /\ active_rests = NoRests
    /\ rest_data = <<>>

\* start_combat(auto_combat=True) up to its loop, against a giant_spider in
\* the easy forest.
StartPoisonLoop ==
    /\ enemy = NoEnemy
    /\ \E level_roll \in -1 .. 1 :
         enemy' = scale_enemy_for_player(EnemyTemplate("giant_spider"), character,
                                         "forest_easy", level_roll)
    /\ result' = [op |-> "start_combat", auto_combat |-> TRUE,
                  ret |-> [result |-> "running"], warning |-> "none"]
    /\ UNCHANGED <<character, turn_number, character_effects, enemy_effects,
                   combat_log, log_len, equipment, calls,
                   tasks, active_rests, rest_data>>

NextPoison == StartPoisonLoop \/ LoopTurn

SpecPoison == InitPoison /\ [][NextPoison]_vars

(***************************************************************************)
(* C27: who acts in a pass of the loop (checked under SpecPoison).         *)
(***************************************************************************)
\* The combat state of this pass after _process_turn_effects.
TickedState == process_turn_effects(CombatStateNow)

\* The character takes the first turn of the exchange of this pass.
CharacterActsFirst ==
    get_total_stats(TickedState.character).speed >= TickedState.enemy.speed

\* C27: no combatant acts while its health is 0: in a pass of the loop that
\* resolves turns, the combatant taking the first turn has health above 0
\* once the damage-over-time effects of the pass have been applied.
C27_ActorAliveAfterTick ==
    [][AutoExchangeStep =>
         IF CharacterActsFirst
         THEN CharacterIsAlive(TickedState.character)
         ELSE EnemyIsAlive(TickedState.enemy)]_vars


(***************************************************************************)
(* SpecRace: two InventoryManager.upgrade_item coroutines for the same     *)
(* user on one event loop.  Each statement sent to the shared database     *)
(* connection is one step; between two statements of a coroutine the other *)
(* coroutine may run.  character.gold and equipment are the rows of the    *)
(* database, tasks[t] the locals of coroutine t.                           *)
(***************************************************************************)
\* The two coroutines.
RaceTasks == {1, 2}

\* Tiers of the equipped items when the calls are made.
RaceTiers == {0, 1}

\* The rows before the calls: gold and gods_stone for one attempt at the
\* tier, or for that attempt and the one after it.
RaceBalances(u) ==
    {[gold |-> get_upgrade_cost(u).gold, gods_stone |-> get_upgrade_cost(u).gods_stone],
     [gold |-> get_upgrade_cost(u).gold + get_upgrade_cost(u + 1).gold,
      gods_stone |-> get_upgrade_cost(u).gods_stone + get_upgrade_cost(u + 1).gods_stone]}

\* The frame of a coroutine that has been called and not yet run.
CalledTask(item_type) ==
    [pc |-> "get_character", item_type |-> item_type, gold |-> 0,
     eq |-> NoEquipment, write |-> NoEquipment, ret |-> [success |-> FALSE, reason |-> "running"]]

InitRace ==
    /\ \E u \in RaceTiers : \E b \in RaceBalances(u) :
         /\ character = [create_character("warrior") EXCEPT !.gold = b.gold]
         /\ equipment = [user_id |-> 1,
                         equipped_weapon |-> StartEquipment("warrior").weapon,
                         equipped_armor |-> StartEquipment("warrior").armor,
                         weapon_upgrade_level |-> u,
                         armor_upgrade_level |-> u,
                         gods_stone |-> b.gods_stone]
         /\ result = [op |-> "upgrade_item_tasks", gold |-> b.gold,
                      gods_stone |-> b.gods_stone, upgrade_level |-> u]
    /\ \E types \in [RaceTasks -> {"weapon", "armor"}] :
         tasks = [t \in RaceTasks |-> CalledTask(types[t])]
    /\ enemy = NoEnemy
    /\ turn_number = 0
    /\ character_effects = <<>>
    /\ enemy_effects = <<>>
    /\ combat_log = <<>>
    /\ log_len = 0
    /\ calls = 0
    /\ active_rests = NoRests
    /\ rest_data = <<>>

\* What a step of a coroutine leaves alone besides the rows and its frame.
RaceFrame ==
    UNCHANGED <<enemy, turn_number, character_effects, enemy_effects, combat_log,
                log_len, result, calls, active_rests, rest_data>>

\* character = await self.db.get_character(user_id)
RaceGetCharacter(t) ==
    /\ tasks[t].pc = "get_character"
    /\ tasks' = [tasks EXCEPT ![t].pc = "get_equipped", ![t].gold = character.gold]
    /\ UNCHANGED <<character, equipment>>
    /\ RaceFrame

\* get_character_equipment: the SELECT of the equipped ids and tiers from
\* the characters row.
RaceGetEquipped(t) ==
    /\ tasks[t].pc = "get_equipped"
    /\ tasks' = [tasks EXCEPT ![t].pc = "get_materials",
                              ![t].eq = [equipment EXCEPT !.gods_stone = 0]]
    /\ UNCHANGED <<character, equipment>>
    /\ RaceFrame

\* get_character_equipment: the SELECT from player_materials, which
\* completes the CharacterEquipment that upgrade_item works on.
RaceGetMaterials(t) ==
    /\ tasks[t].pc = "get_materials"
    /\ tasks' = [tasks EXCEPT ![t].pc = "attempt",
                              ![t].eq.gods_stone = equipment.gods_stone]
    /\ UNCHANGED <<character, equipment>>
    /\ RaceFrame

\* upgrade_item from its checks to its first UPDATE: a refusal returns;
\* otherwise the attempt is rolled and the characters row is written (the
\* tier of a success, and the gold) from the values read before.
RaceAttempt(t) ==
    /\ tasks[t].pc = "attempt"
    /\ LET f == tasks[t]
           item_id == IF f.item_type = "weapon" THEN f.eq.equipped_weapon
                      ELSE f.eq.equipped_armor
       IN  \E roll \in UpgradeRolls(CurrentUpgrade(f.eq, f.item_type)) :
             LET r == upgrade_item(f.gold, f.eq, item_id, f.item_type, roll)
                 rolled == r.ret.success \/ r.ret.reason = "upgrade_failed"
             IN  IF ~rolled
                 THEN /\ tasks' = [tasks EXCEPT ![t].pc = "done", ![t].ret = r.ret]
                      /\ UNCHANGED <<character, equipment>>
                 ELSE /\ tasks' = [tasks EXCEPT ![t].pc = "update_materials",
                                                ![t].write = r.eq, ![t].ret = r.ret]
                      /\ character' = [character EXCEPT !.gold = r.gold]
                      /\ equipment' =
                           IF ~r.ret.success THEN equipment
                           ELSE IF f.item_type = "weapon"
                           THEN [equipment EXCEPT !.weapon_upgrade_level =
                                                     r.eq.weapon_upgrade_level]
                           ELSE [equipment EXCEPT !.armor_upgrade_level =
                                                     r.eq.armor_upgrade_level]
    /\ RaceFrame

\* UPDATE player_materials SET gods_stone = ?, the commit and the return.
RaceUpdateMaterials(t) ==
    /\ tasks[t].pc = "update_materials"
    /\ equipment' = [equipment EXCEPT !.gods_stone = tasks[t].write.gods_stone]
    /\ tasks' = [tasks EXCEPT ![t].pc = "done"]
    /\ UNCHANGED character
    /\ RaceFrame

NextRace ==
    \E t \in RaceTasks :
      \/ RaceGetCharacter(t)
      \/ RaceGetEquipped(t)
      \/ RaceGetMaterials(t)
      \/ RaceAttempt(t)
      \/ RaceUpdateMaterials(t)

SpecRace == InitRace /\ [][NextRace]_vars

(***************************************************************************)
(* C28: interleaved upgrades (checked under SpecRace).                     *)
(***************************************************************************)
\* Both coroutines have returned.
BothReturned == \A t \in RaceTasks : tasks[t].pc = "done"

\* The coroutines whose attempt was rolled, and those that succeeded on an
\* item of the given type.
RolledTasks == {t \in RaceTasks : tasks[t].ret.reason \in {"none", "upgrade_failed"}}
SucceededTasks(item_type) ==
    {t \in RaceTasks : tasks[t].ret.success /\ tasks[t].item_type = item_type}

\* Sum of the declared cost (of the given material) of the rolled attempts.
RolledCost(material) ==
    LET used(t) == IF t \in RolledTasks THEN tasks[t].ret.materials_used[material]
                   ELSE 0
    IN  used(1) + used(2)

\* C28: when two upgrade_item calls of one user interleave, the final rows
\* are those of a serial execution: the gold and gods_stone debited equal
\* the sum of the declared costs of the attempts that were rolled, neither
\* balance is negative, and each tier rose by the number of successful
\* rolls on that item.
C28_InterleavedUpgradesSerial ==
    (result.op = "upgrade_item_tasks" /\ BothReturned) =>
      /\ result.gold - character.gold = RolledCost("gold")
      /\ result.gods_stone - equipment.gods_stone = RolledCost("gods_stone")
      /\ character.gold >= 0
      /\ equipment.gods_stone >= 0
      /\ equipment.weapon_upgrade_level - result.upgrade_level
           = Cardinality(SucceededTasks("weapon"))
      /\ equipment.armor_upgrade_level - result.upgrade_level
           = Cardinality(SucceededTasks("armor"))


(***************************************************************************)
(* SpecRest: rest_manager.py.  One user starts and stops rest sessions     *)
(* through the tavern handlers; every successful start_rest creates a      *)
(* rest_data dictionary and a background task running _rest_process, which *)
(* keeps its own reference to that dictionary.  rest_data[i] is the        *)
(* dictionary of session i and tasks[i] its background task.               *)
(***************************************************************************)
\* Number of start_rest and stop_rest calls in one run.
MaxRestCalls == 4

\* The user of the sessions.
RestUser == 1

\* heal_per_tick of start_rest.
HealPerTick == 15

\* Health of the character when the run starts: full, one tick short, two
\* ticks short, three ticks short.
RestHealths(ch) ==
    {ch.max_health, ch.max_health - 10, ch.max_health - 20, ch.max_health - 40}

InitRest ==
    /\ \E h \in RestHealths(create_character("warrior")) :
         character = [create_character("warrior") EXCEPT !.health = h]
    /\ enemy = NoEnemy
    /\ turn_number = 0
    /\ character_effects = <<>>
    /\ enemy_effects = <<>>
    /\ combat_log = <<>>
    /\ log_len = 0
    /\ equipment = NoEquipment
    /\ result = NoResult
    /\ calls = 0
    /\ tasks = NoTasks
    /\ active_rests = NoRests
    /\ rest_data = <<>>

\* What the RestManager steps leave alone.
RestFrame ==
    UNCHANGED <<enemy, turn_number, character_effects, enemy_effects, combat_log,
                log_len, equipment>>

\* user_id in self.active_rests
InActiveRests(user_id) == user_id \in DOMAIN active_rests

\* RestManager.is_resting
is_resting(user_id) ==
    InActiveRests(user_id) /\ rest_data[active_rests[user_id]].is_active

\* del self.active_rests[user_id]
DelRest(rests, user_id) == [u \in (DOMAIN rests) \ {user_id} |-> rests[u]]

\* RestManager.start_rest called by the tavern handler with the dictionary
\* of the character row.  The task it creates runs _rest_process up to its
\* first asyncio.sleep before another handler runs.
StartRest ==
    /\ calls < MaxRestCalls
    /\ calls' = calls + 1
    /\ IF InActiveRests(RestUser)
       THEN /\ result' = [op |-> "start_rest", success |-> FALSE,
                          message |-> "already_resting"]
            /\ UNCHANGED <<tasks, active_rests, rest_data>>
       ELSE IF character.health >= character.max_health
       THEN /\ result' = [op |-> "start_rest", success |-> FALSE,
                          message |-> "health_full"]
            /\ UNCHANGED <<tasks, active_rests, rest_data>>
       ELSE LET missing_health == character.max_health - character.health
                total_ticks == (missing_health + HealPerTick - 1) \div HealPerTick
                data == [user_id |-> RestUser,
                         health |-> character.health,
                         max_health |-> character.max_health,
                         heal_per_tick |-> HealPerTick,
                         total_ticks |-> total_ticks,
                         current_tick |-> 0,
                         is_active |-> TRUE]
            IN  /\ rest_data' = Append(rest_data, data)
                /\ active_rests' = [u \in DOMAIN active_rests \cup {RestUser} |->
                                      IF u = RestUser THEN Len(rest_data) + 1
                                      ELSE active_rests[u]]
                /\ tasks' = Append(tasks, [pc |-> "sleep", rest |-> Len(rest_data) + 1])
                /\ result' = [op |-> "start_rest", success |-> TRUE,
                              message |-> "started"]
    /\ UNCHANGED character
    /\ RestFrame

\* RestManager.stop_rest
StopRest ==
    /\ calls < MaxRestCalls
    /\ calls' = calls + 1
    /\ IF ~InActiveRests(RestUser)
       THEN /\ result' = [op |-> "stop_rest", success |-> FALSE, total_healed |-> 0]
            /\ UNCHANGED <<active_rests, rest_data>>
       ELSE LET i == active_rests[RestUser]
            IN  /\ rest_data' = [rest_data EXCEPT ![i].is_active = FALSE]
                /\ active_rests' = DelRest(active_rests, RestUser)
                /\ result' = [op |-> "stop_rest", success |-> TRUE,
                              total_healed |->
                                  rest_data[i].current_tick * rest_data[i].heal_per_tick]
    /\ UNCHANGED <<character, tasks>>
    /\ RestFrame

\* _rest_process of session i from the end of its asyncio.sleep(15) to its
\* next sleep or to its end: the is_active test, the healing with its
\* database update, the full-health test, the loop condition, and the
\* clean-up of active_rests[user_id] when the loop is left.
RestProcessWakes(i) ==
    /\ i \in DOMAIN tasks
    /\ tasks[i].pc = "sleep"
    /\ LET data == rest_data[tasks[i].rest]
           heal_amount == Min(data.heal_per_tick, data.max_health - data.health)
           healed == IF heal_amount > 0
                     THEN [data EXCEPT !.health = Min(data.max_health,
                                                     data.health + heal_amount),
                                       !.current_tick = @ + 1]
                     ELSE data
           after == IF healed.health >= healed.max_health
                    THEN [healed EXCEPT !.is_active = FALSE] ELSE healed
           goes_on == after.is_active /\ after.current_tick < after.total_ticks
       IN  IF ~data.is_active
           THEN /\ active_rests' = DelRest(active_rests, data.user_id)
                /\ tasks' = [tasks EXCEPT ![i].pc = "done"]
                /\ UNCHANGED <<character, rest_data>>
           ELSE /\ rest_data' = [rest_data EXCEPT ![tasks[i].rest] = after]
                /\ character' = IF heal_amount > 0
                                THEN [character EXCEPT !.health = healed.health]
                                ELSE character
                /\ tasks' = [tasks EXCEPT ![i].pc = IF goes_on THEN "sleep" ELSE "done"]
                /\ active_rests' = IF goes_on THEN active_rests
                                   ELSE DelRest(active_rests, data.user_id)
    /\ UNCHANGED <<result, calls>>
    /\ RestFrame

NextRest ==
    \/ StartRest
    \/ StopRest
    \/ \E i \in 1 .. MaxRestCalls : RestProcessWakes(i)

SpecRest == InitRest /\ [][NextRest]_vars

(***************************************************************************)
(* C29: sessions and their background processes (checked under SpecRest).  *)
(***************************************************************************)
\* The background processes that will heal at their next wake-up.
HealingProcesses ==
    {i \in DOMAIN tasks : tasks[i].pc = "sleep" /\ rest_data[tasks[i].rest].is_active}

\* C29: at most one background rest process heals the user at any time, and
\* the active_rests entry of a session is removed only by that session's
\* own completion or stop: as long as a session has neither been stopped
\* nor completed, active_rests holds its entry and is_resting is true, also
\* when the process of an earlier, stopped session wakes up in the meantime.
C29_SessionEntryKeptUntilItEnds ==
    /\ Cardinality(HealingProcesses) <= 1
    /\ \A i \in HealingProcesses :
         /\ InActiveRests(RestUser)
         /\ active_rests[RestUser] = tasks[i].rest
         /\ is_resting(RestUser)


(***************************************************************************)
(* SpecCharacter: sequences of CharacterManager operations on one          *)
(* character record (rest_character, use_consumable_item, add_experience,  *)
(* equip_item).                                                            *)
(***************************************************************************)
\* Number of CharacterManager calls in one run.
MaxCharacterCalls == 4

\* Item.level_required of the catalogue entries of ItemStats; 0 for an id
\* the catalogue does not have.
LevelRequired(item_id) ==
    CASE item_id \in {"iron_sword", "wooden_staff", "hunting_bow", "leather_armor",
                      "apprentice_robe"} -> 1
      [] item_id = "padded_armor" -> 2
      [] item_id = "steel_sword" -> 3
      [] OTHER -> 0

\* CharacterManager.equip_item
equip_item(ch, item_id) ==
    IF ItemTypeOf(item_id) = "none" THEN [ch |-> ch, success |-> FALSE]
    ELSE IF ch.level < LevelRequired(item_id) THEN [ch |-> ch, success |-> FALSE]
    ELSE IF ItemTypeOf(item_id) = "weapon"
    THEN [ch |-> [ch EXCEPT !.weapon = item_id], success |-> TRUE]
    ELSE IF ItemTypeOf(item_id) = "armor"
    THEN [ch |-> [ch EXCEPT !.armor = item_id], success |-> TRUE]
    ELSE [ch |-> ch, success |-> FALSE]

\* CharacterManager.rest_character
rest_character(ch) ==
    [ch EXCEPT !.health = get_total_stats(ch).max_health,
               !.mana = get_total_stats(ch).max_mana]

\* Items handed to equip_item: armor with and without a health bonus, a
\* weapon above the character's level, a consumable.
EquipIds == {"padded_armor", "leather_armor", "steel_sword", "bread"}

\* Consumables handed to use_consumable_item.
CharacterPotions == {"small_health_potion", "bread", "phoenix_feather"}

\* Experience granted: one point, or what is missing to the next level.
CharacterGrants(ch) ==
    {BigOf(1)} \cup (IF BigGE(ch.experience, ch.experience_needed) THEN {}
                     ELSE {BigSub(ch.experience_needed, ch.experience)})

InitCharacter ==
    /\ \E c \in Classes, h \in {0, 10} :
         character = [create_character(c) EXCEPT
                        !.health = IF h = 0 THEN @ ELSE h]
    /\ enemy = NoEnemy
    /\ turn_number = 0
    /\ character_effects = <<>>
    /\ enemy_effects = <<>>
    /\ combat_log = <<>>
    /\ log_len = 0
    /\ equipment = NoEquipment
    /\ result = NoResult
    /\ calls = 0
    /\ tasks = NoTasks
    /\ active_rests = NoRests
    /\ rest_data = <<>>

\* What a CharacterManager call leaves alone; every call is counted.
CharacterFrame ==
    /\ calls < MaxCharacterCalls
    /\ calls' = calls + 1
    /\ UNCHANGED <<enemy, turn_number, character_effects, enemy_effects, combat_log,
                   log_len, equipment, tasks, active_rests, rest_data>>

\* One call of rest_character.
RestCharacter ==
    /\ character' = rest_character(character)
    /\ result' = [op |-> "rest_character", health_before |-> character.health]
    /\ CharacterFrame

\* One call of equip_item.
EquipItem ==
    /\ \E item_id \in EquipIds :
         LET r == equip_item(character, item_id)
         IN  /\ character' = r.ch
             /\ result' = [op |-> "equip_item", item_id |-> item_id,
                           success |-> r.success,
                           health_before |-> character.health]
    /\ CharacterFrame

\* One call of use_consumable_item.
UseConsumable ==
    /\ \E item_id \in CharacterPotions :
         LET r == use_consumable_item(character, item_id)
         IN  /\ character' = r.ch
             /\ result' = [op |-> "use_consumable_item", item_id |-> item_id,
                           success |-> r.success,
                           health_before |-> character.health]
    /\ CharacterFrame

\* One call of add_experience.
GrantExperience ==
    /\ \E amt \in CharacterGrants(character) :
         LET r == add_experience(character, amt)
         IN  /\ character' = r.ch
             /\ result' = [op |-> "add_experience",
                           levels_gained |-> r.ret.levels_gained,
                           health_before |-> character.health]
    /\ CharacterFrame

NextCharacter == RestCharacter \/ EquipItem \/ UseConsumable \/ GrantExperience

SpecCharacter == InitCharacter /\ [][NextCharacter]_vars

(***************************************************************************)
(* C30: health of the character record (checked under SpecCharacter).      *)
(***************************************************************************)
\* C30: after any sequence of rest_character, use_consumable_item,
\* add_experience and equip_item calls the character's health is within
\* 0 .. max_health of the character record, and a health-restoring
\* consumable never leaves the character with less health than before.
C30_HealthWithinRecordMaximum ==
    /\ character.health >= 0
    /\ character.health <= character.max_health
    /\ (result.op = "use_consumable_item" /\ ConsumableHealth(result.item_id) > 0)
         => character.health >= result.health_before
====
